---- MODULE Spec2Model ----
(***************************************************************************)
(* Model of the EPUB content-extraction engine of scripts/epub_to_xml.py:  *)
(* ImageProcessor (image store), ContentProcessor (source resolver and     *)
(* content tree walker) and EPUBProcessor (navigation resolver, document   *)
(* assembler, XML serializer).                                             *)
(*                                                                         *)
(* Strings are sequences of one-character strings.  A percent escape such  *)
(* as "%23" and an alphanumeric run such as "OEBPS" are single elements:   *)
(* no operation of the program splits them.                                *)
(***************************************************************************)
EXTENDS Integers, Sequences, FiniteSets, TLC

VARIABLES
    pc,                 \* position inside EPUBProcessor.process / the driver
    book,               \* the EPUB on disk: exists, readable, nav item, spine
    chapters,           \* EPUBProcessor.chapters: <<normalized href, title>>
    structured_content, \* ContentProcessor.structured_content
    image_log,          \* ImageProcessor.image_log
    processed_images,   \* ImageProcessor.processed_images
    files,              \* image files present in image_dir
    processed_hrefs,    \* process_content: set of normalized hrefs walked
    spine_pos,          \* process_content: index of the next spine entry
    origin,             \* history: spine index that produced each item
    walked,             \* history: spine indexes handed to the walker
    xml_file,           \* the XML document written by save_results_xml
    result,             \* return value of process()
    walk_tag,           \* the node handed to process_tag_content (walker runs)
    calls,              \* history: the process_image calls made (image runs),
                        \* the extract_image_data calls made (resolver runs)
    translation_cache,  \* XMLTranslator.translation_cache: the ids translated
    elements_to_process,\* translate_elements: the pending queue, as ids
    stop_flag,          \* translate_xml.stop_flag
    batch,              \* translate_elements: the batch sent last
    attempt,            \* process_batch: the attempt under way
    outcome             \* history: how the last call of process_batch ended

translator_vars == <<translation_cache, elements_to_process, stop_flag, batch,
                     attempt, outcome>>

extractor_vars == <<book, chapters, structured_content, image_log,
                    processed_images, files, processed_hrefs, spine_pos, origin,
                    walked, xml_file, result, walk_tag, calls>>

vars == <<pc, book, chapters, structured_content, image_log, processed_images,
          files, processed_hrefs, spine_pos, origin, walked, xml_file, result,
          walk_tag, calls, translation_cache, elements_to_process, stop_flag,
          batch, attempt, outcome>>

None == "None"

\* F applied to the value of x: x is evaluated once and named
Let1(x, F(_)) == CHOOSE r \in {F(v) : v \in {x}} : TRUE

-----------------------------------------------------------------------------
(* Bounds of the model *)

MaxSpine == 3
MaxDepth == 2
MaxCalls == 3
MaxResolves == 2
MaxLinks == 3
MaxItems == 4
BATCH_SIZE == 2

-----------------------------------------------------------------------------
(* Python string operations on sequences of characters *)

Whitespace == {" ", "\n", "\t"}

RECURSIVE lstrip(_, _)
lstrip(s, chars) ==
    IF s # <<>> /\ Head(s) \in chars THEN lstrip(Tail(s), chars) ELSE s

RECURSIVE rstrip(_, _)
rstrip(s, chars) ==
    IF s # <<>> /\ s[Len(s)] \in chars
    THEN rstrip(SubSeq(s, 1, Len(s) - 1), chars) ELSE s

strip(s) == rstrip(lstrip(s, Whitespace), Whitespace)

RECURSIVE concat(_)
concat(ss) == IF ss = <<>> THEN <<>> ELSE Head(ss) \o concat(Tail(ss))

\* s.split(): the maximal runs of non-whitespace characters
RECURSIVE split_ws(_, _, _)
split_ws(s, cur, acc) ==
    IF s = <<>> THEN (IF cur = <<>> THEN acc ELSE Append(acc, cur))
    ELSE IF Head(s) \in Whitespace
         THEN split_ws(Tail(s), <<>>, IF cur = <<>> THEN acc ELSE Append(acc, cur))
         ELSE split_ws(Tail(s), Append(cur, Head(s)), acc)

\* sep.join(parts)
RECURSIVE join(_, _)
join(parts, sep) ==
    IF parts = <<>> THEN <<>>
    ELSE IF Len(parts) = 1 THEN parts[1]
    ELSE parts[1] \o sep \o join(Tail(parts), sep)

\* s.split(sep) for a one-character separator
RECURSIVE split_on(_, _, _, _)
split_on(s, sep, cur, acc) ==
    IF s = <<>> THEN Append(acc, cur)
    ELSE IF Head(s) = sep THEN split_on(Tail(s), sep, <<>>, Append(acc, cur))
    ELSE split_on(Tail(s), sep, Append(cur, Head(s)), acc)

split(s, sep) == split_on(s, sep, <<>>, <<>>)

startswith(s, p) == Len(s) >= Len(p) /\ SubSeq(s, 1, Len(p)) = p

replace(s, a, b) == [i \in 1..Len(s) |-> IF s[i] = a THEN b ELSE s[i]]

\* urllib.parse.unquote: every percent escape becomes the character it encodes
unquote_char(c) ==
    CASE c = "%23" -> "#"
      [] c = "%2E" -> "."
      [] c = "%2F" -> "/"
      [] c = "%20" -> " "
      [] OTHER -> c

unquote(s) == [i \in 1..Len(s) |-> unquote_char(s[i])]

SelectSeqNonEmpty(ss) == SelectSeq(ss, LAMBDA x : x # <<>>)

\* the root of a POSIX path: "//" for exactly two leading slashes, else "/"
path_root(s) ==
    IF startswith(s, <<"/", "/">>) /\ ~startswith(s, <<"/", "/", "/">>)
    THEN <<"/", "/">>
    ELSE IF startswith(s, <<"/">>) THEN <<"/">> ELSE <<>>

\* the segments of a path that Path keeps: not empty, not "."
path_parts(s) == SelectSeq(split(s, "/"), LAMBDA x : x # <<>> /\ x # <<".">>)

\* root and segments put together again; the empty path is "."
path_of(root, parts) ==
    IF root = <<>> /\ parts = <<>> THEN <<".">> ELSE root \o join(parts, <<"/">>)

\* str(Path(s)) on POSIX: empty and "." segments dropped, ".." kept
path_str(s) == path_of(path_root(s), path_parts(s))

\* str(Path(s).parent)
path_parent(s) ==
    Let1(path_parts(s), LAMBDA parts :
        path_of(path_root(s),
                IF parts = <<>> THEN parts ELSE SubSeq(parts, 1, Len(parts) - 1)))

\* urllib.parse.urljoin(base, url) for references with no scheme, no
\* authority and no query: the path of url is merged with the directory of
\* base, dot segments are resolved, and the fragment of url is kept.
RECURSIVE resolve_segments(_, _)
resolve_segments(segments, resolved) ==
    IF segments = <<>> THEN resolved
    ELSE resolve_segments(Tail(segments),
             IF Head(segments) = <<".", ".">>
             THEN (IF resolved = <<>> THEN <<>>
                   ELSE SubSeq(resolved, 1, Len(resolved) - 1))
             ELSE IF Head(segments) = <<".">> THEN resolved
             ELSE Append(resolved, Head(segments)))

filter_middle(segments) ==
    IF Len(segments) <= 2 THEN segments
    ELSE <<segments[1]>>
         \o SelectSeqNonEmpty(SubSeq(segments, 2, Len(segments) - 1))
         \o <<segments[Len(segments)]>>

\* base_parts: the segments of the base path without the last one
base_parts(bsplit) ==
    IF bsplit[Len(bsplit)] # <<>> THEN SubSeq(bsplit, 1, Len(bsplit) - 1)
    ELSE bsplit

\* the merged path of urljoin, from the segments to resolve
resolved_path(segments) ==
    Let1(resolve_segments(segments, <<>>), LAMBDA resolved :
        Let1(join(IF segments[Len(segments)] \in {<<".">>, <<".", ".">>}
                  THEN Append(resolved, <<>>) ELSE resolved, <<"/">>),
             LAMBDA joined : IF joined = <<>> THEN <<"/">> ELSE joined))

urlunparse(path, fragment) ==
    IF fragment = <<>> THEN path ELSE path \o <<"#">> \o fragment

urljoin(base, url) ==
    IF base = <<>> THEN url
    ELSE IF url = <<>> THEN base
    ELSE Let1(split(url, "#"), LAMBDA parts :
         Let1(split(base, "#")[1], LAMBDA bpath :
             IF parts[1] = <<>>
             THEN urlunparse(bpath, join(Tail(parts), <<"#">>))
             ELSE urlunparse(
                      resolved_path(
                          IF Head(parts[1]) = "/" THEN split(parts[1], "/")
                          ELSE filter_middle(base_parts(split(bpath, "/"))
                                             \o split(parts[1], "/"))),
                      join(Tail(parts), <<"#">>))))

\* str(Path(x)).replace('\\', '/').lstrip('./').lstrip('../')
normalize_path(no_fragment) ==
    lstrip(lstrip(replace(path_str(no_fragment), "\\", "/"), {".", "/"}),
           {".", "/"})

\* urllib.parse.unquote(x).split('#')[0]
no_fragment_of(x) == split(unquote(x), "#")[1]

\* the normalization of a navigation href with the fragment left in: the
\* variant against which the matching of navigation and spine is checked
normalize_nav_href_with_fragment(nav_doc_base_href, href_raw) ==
    normalize_path(unquote(urljoin(nav_doc_base_href, href_raw)))

\* extract_chapters: normalization of a navigation href
normalize_nav_href(nav_doc_base_href, href_raw) ==
    normalize_path(no_fragment_of(urljoin(nav_doc_base_href, href_raw)))

\* process_content: normalization of a spine document's name
normalize_item_href(item_href_raw) ==
    normalize_path(no_fragment_of(item_href_raw))

-----------------------------------------------------------------------------
(* ExtractorConfig *)

min_image_width == 128
min_image_height == 128
image_dir == "images"

-----------------------------------------------------------------------------
(* Image data.  Bytes are named; PIL's decoding of them is a table. *)

ImageBytes == {"big", "small", "wide", "junk"}

\* a decoder that takes any bytes for an image: the variant against which
\* the skipping of an image that does not decode is checked
image_open_any(image_data) == [ok |-> TRUE, width |-> 200, height |-> 200]

\* Image.open(BytesIO(image_data)): fails on "junk"
image_open(image_data) ==
    CASE image_data = "big"   -> [ok |-> TRUE, width |-> 200, height |-> 200]
      [] image_data = "small" -> [ok |-> TRUE, width |-> 50, height |-> 50]
      [] image_data = "wide"  -> [ok |-> TRUE, width |-> 200, height |-> 50]
      [] OTHER                -> [ok |-> FALSE, width |-> 0, height |-> 0]

\* base64.b64decode of the payload of a data URI; <<>> when it raises
b64decode(encoded) ==
    CASE encoded = <<"b64big">>   -> <<"big">>
      [] encoded = <<"b64small">> -> <<"small">>
      [] OTHER -> <<>>

-----------------------------------------------------------------------------
(* ImageProcessor *)

\* An optional integer is <<>> (None) or <<n>>.
NoDim == <<>>

\* int(float(str(v).replace('px', '').strip())) on an attribute value:
\* "ValueError" is caught by get_dimensions, "OverflowError" is not.
parse_dim(v) ==
    CASE v = "200"   -> [val |-> <<200>>, exc |-> None]
      [] v = "200px" -> [val |-> <<200>>, exc |-> None]
      [] v = "300"   -> [val |-> <<300>>, exc |-> None]
      [] v = "50"    -> [val |-> <<50>>, exc |-> None]
      [] v = "0"     -> [val |-> <<0>>, exc |-> None]
      [] v = "inf"   -> [val |-> NoDim, exc |-> "OverflowError"]
      [] OTHER       -> [val |-> NoDim, exc |-> "ValueError"]

\* the value of one dimension attribute; absent or empty gives None
dim_attr(v) == IF v # "" THEN parse_dim(v) ELSE [val |-> NoDim, exc |-> None]

\* get_dimensions(tag): [width, height, raised]
get_dimensions(tag) ==
    Let1(dim_attr(tag.attrs.width), LAMBDA w :
    Let1(dim_attr(tag.attrs.height), LAMBDA h :
        IF w.exc = "OverflowError" \/ h.exc = "OverflowError"
        THEN [width |-> NoDim, height |-> NoDim, raised |-> TRUE]
        ELSE [width |-> w.val, height |-> h.val, raised |-> FALSE]))

\* get_source(tag): src, else href
get_source(tag) == IF tag.attrs.src # <<>> THEN tag.attrs.src ELSE tag.attrs.href

\* compute_hash(data): the MD5 digest, distinct for the images of the model
compute_hash(data) == <<"md5", data>>

NoLog == [hash |-> <<>>]

\* next((log for log in self.image_log if log['hash'] == image_hash), None)
RECURSIVE find_log(_, _)
find_log(log, image_hash) ==
    IF log = <<>> THEN NoLog
    ELSE IF Head(log).hash = image_hash THEN Head(log)
    ELSE find_log(Tail(log), image_hash)

NoImage == [filepath |-> <<>>]

\* the dict returned by save for a stored image
image_details(image_hash, actual_width, actual_height, source_info) ==
    [filepath |-> <<image_dir, <<image_hash, actual_width, actual_height, "jpg">>>>,
     filename |-> <<image_hash, actual_width, actual_height, "jpg">>,
     dimensions |-> <<actual_width, actual_height>>,
     source |-> source_info, hash |-> image_hash]

\* save putting the details in place of the log instead of appending them:
\* the variant against which the growth of the log is checked
save_new_log_rewritten(store, details) ==
    [ret |-> details,
     store |-> [image_log |-> <<details>>,
                processed_images |-> store.processed_images \cup {details.hash},
                files |-> store.files \cup {details.filepath}]]

\* save, after the size filter: write the file unless it exists, log the
\* image unless its hash is known
save_new(store, details) ==
    IF details.filepath \in store.files /\ details.hash \in store.processed_images
    THEN [ret |-> details, store |-> store]
    ELSE [ret |-> details,
          store |-> [image_log |-> IF details.hash \notin store.processed_images
                                   THEN Append(store.image_log, details)
                                   ELSE store.image_log,
                     processed_images |-> store.processed_images \cup {details.hash},
                     files |-> store.files \cup {details.filepath}]]

\* save, after the lookup in the log: decode, resolve the dimensions, filter
save_decoded(store, img, image_hash, source_info, width, height) ==
    Let1(IF width # NoDim THEN width[1] ELSE img.width, LAMBDA actual_width :
    Let1(IF height # NoDim THEN height[1] ELSE img.height, LAMBDA actual_height :
        IF ~img.ok THEN [ret |-> NoImage, store |-> store]
        ELSE IF actual_width < min_image_width \/ actual_height < min_image_height
             THEN [ret |-> NoImage, store |-> store]
        ELSE save_new(store, image_details(image_hash, actual_width,
                                           actual_height, source_info))))

\* save without the lookup of the hash in the log: the variant against
\* which the sharing of one stored image is checked
save_without_lookup(store, image_data, source_info, width, height) ==
    save_decoded(store, image_open(image_data), compute_hash(image_data),
                 source_info, width, height)

\* A store is [image_log, processed_images, files].
\* save(image_data, source_info, width, height, config): [ret, store]
save(store, image_data, source_info, width, height) ==
    Let1(find_log(store.image_log, compute_hash(image_data)), LAMBDA existing_log :
        IF existing_log # NoLog
        THEN [ret |-> [filepath |-> existing_log.filepath,
                       filename |-> existing_log.filename,
                       dimensions |-> existing_log.dimensions,
                       hash |-> compute_hash(image_data),
                       source |-> source_info],
              store |-> store]
        ELSE save_decoded(store, image_open(image_data), compute_hash(image_data),
                          source_info, width, height))

-----------------------------------------------------------------------------
(* ContentProcessor: source resolver *)

\* A manifest item is [id, name, type, nav, content, readable].
\* book.get_item_with_href(href): index of the first item so named, or 0
RECURSIVE item_with(_, _, _, _)
item_with(items, field, value, i) ==
    IF i > Len(items) THEN 0
    ELSE IF items[i][field] = value THEN i
    ELSE item_with(items, field, value, i + 1)

get_item_with_href(items, href) == item_with(items, "name", href, 1)
get_item_with_id(items, id) == item_with(items, "id", id, 1)

\* list(dict.fromkeys(seq)): duplicates removed, first occurrences kept
RECURSIVE unique(_, _)
unique(seq, acc) ==
    IF seq = <<>> THEN acc
    ELSE IF \E i \in 1..Len(acc) : acc[i] = Head(seq) THEN unique(Tail(seq), acc)
    ELSE unique(Tail(seq), Append(acc, Head(seq)))

common_roots == <<"OEBPS", "OPS", "EPUB", "Text", "text">>

RECURSIVE root_candidates(_, _, _)
root_candidates(roots, original_unquoted, href) ==
    IF roots = <<>> THEN <<>>
    ELSE << <<Head(roots), "/">> \o lstrip(original_unquoted, {"/"}),
            <<Head(roots), "/">> \o lstrip(href, {"/"}) >>
         \o root_candidates(Tail(roots), original_unquoted, href)

\* href.startswith(('http://', 'https://', '/'))
is_external(href) ==
    \/ startswith(href, <<"http://">>)
    \/ startswith(href, <<"https://">>)
    \/ startswith(href, <<"/">>)

\* str(base_path / href).replace('\\', '/') when base_href is given and
\* href is not external, else href
absolute_href(href, base_href) ==
    IF base_href # <<>> /\ ~is_external(href)
    THEN replace(path_str(path_parent(base_href) \o <<"/">> \o href), "\\", "/")
    ELSE href

\* x.lstrip('./').lstrip('../')
lstrip2(x) == lstrip(lstrip(x, {".", "/"}), {".", "/"})

\* the candidates with the reference as written tried before the one taken
\* from the directory of the document: the variant against which the order
\* of the candidates is checked
unique_hrefs_verbatim_first(href, base_href) ==
    Let1(absolute_href(href, base_href), LAMBDA abs :
    Let1(unquote(abs), LAMBDA decoded_href :
        unique(<<href, decoded_href, abs,
                 lstrip2(href), lstrip2(decoded_href), lstrip2(abs)>>
               \o root_candidates(common_roots, unquote(href), href),
               <<>>)))

\* the candidate references of extract_image_data, in the order tried
unique_hrefs(href, base_href) ==
    Let1(absolute_href(href, base_href), LAMBDA abs :
    Let1(unquote(abs), LAMBDA decoded_href :
        unique(<<decoded_href, abs, href,
                 lstrip2(decoded_href), lstrip2(abs), lstrip2(href)>>
               \o root_candidates(common_roots, unquote(href), href),
               <<>>)))

RECURSIVE first_item(_, _)
first_item(items, hrefs) ==
    IF hrefs = <<>> THEN 0
    ELSE Let1(get_item_with_href(items, Head(hrefs)), LAMBDA i :
             IF i # 0 THEN i ELSE first_item(items, Tail(hrefs)))

\* the payload of a data URI: href.split(',', 1)[1], decoded
data_uri(parts) ==
    IF Len(parts) < 2 THEN <<>> ELSE b64decode(join(Tail(parts), <<",">>))

\* extract_image_data(href, base_href): <<bytes>>, or <<>> for None
extract_image_data(items, href, base_href) ==
    IF startswith(href, <<"data:image">>) THEN data_uri(split(href, ","))
    ELSE Let1(first_item(items, unique_hrefs(href, base_href)), LAMBDA i :
             IF i = 0 THEN <<>>
             ELSE IF ~items[i].readable THEN <<>>
             ELSE <<items[i].content>>)

\* process_image, once the image data is there: dimensions, save, item
image_info(store, tag, image_data, dims, context, src, base_href) ==
    IF dims.raised THEN [info |-> NoImage, store |-> store, raised |-> TRUE]
    ELSE Let1(save(store, image_data, <<context, tag.name, src, base_href>>,
                   dims.width, dims.height),
              LAMBDA saved :
                  IF saved.ret = NoImage
                  THEN [info |-> NoImage, store |-> saved.store, raised |-> FALSE]
                  ELSE [info |-> [type |-> "image",
                                  filepath |-> saved.ret.filepath,
                                  filename |-> saved.ret.filename,
                                  alt |-> context],
                        store |-> saved.store, raised |-> FALSE])

\* process_image(tag, context, config, base_href): [info, store, raised]
process_image(items, store, tag, context, base_href) ==
    IF tag.name \notin {"img", "image"} \/ get_source(tag) = <<>>
    THEN [info |-> NoImage, store |-> store, raised |-> FALSE]
    ELSE Let1(extract_image_data(items, get_source(tag), base_href),
              LAMBDA image_data :
                  IF image_data = <<>>
                  THEN [info |-> NoImage, store |-> store, raised |-> FALSE]
                  ELSE Let1(get_dimensions(tag), LAMBDA dims :
                           image_info(store, tag, image_data[1], dims, context,
                                      get_source(tag), base_href)))

-----------------------------------------------------------------------------
(* Markup.  A node is [name, text, attrs, ch]; a text node                 *)
(* (NavigableString) has name "#text".  attrs holds the attributes the     *)
(* program reads; an absent attribute is empty.                            *)

NoAttrs == [src |-> <<>>, href |-> <<>>, width |-> "", height |-> "",
            epub_type |-> ""]

Text(t) == [name |-> "#text", text |-> t, attrs |-> NoAttrs, ch |-> <<>>]
Elem(n, children) == [name |-> n, text |-> <<>>, attrs |-> NoAttrs,
                      ch |-> children]
Img(n, s, w, h) ==
    [name |-> n, text |-> <<>>,
     attrs |-> [NoAttrs EXCEPT !.src = s, !.width = w, !.height = h],
     ch |-> <<>>]
Link(n, h, children) ==
    [name |-> n, text |-> <<>>, attrs |-> [NoAttrs EXCEPT !.href = h],
     ch |-> children]

is_str(elem) == elem.name = "#text"

\* tag.find_all(name): the descendants so named, in document order
RECURSIVE find_all(_, _)
find_all_in(children, name) ==
    concat([i \in 1..Len(children) |->
              (IF children[i].name = name THEN <<children[i]>> ELSE <<>>)
              \o find_all(children[i], name)])
find_all(tag, name) == find_all_in(tag.ch, name)

\* tag.get_text(): the text of all descendants, concatenated
RECURSIVE get_text(_)
get_text(tag) ==
    IF is_str(tag) THEN tag.text
    ELSE concat([i \in 1..Len(tag.ch) |-> get_text(tag.ch[i])])

\* tag.string: the single string a tag holds, <<"#none">> when there is none
RECURSIVE tag_string(_)
tag_string(tag) ==
    IF is_str(tag) THEN tag.text
    ELSE IF Len(tag.ch) = 1 THEN tag_string(tag.ch[1])
    ELSE <<"#none">>

\* some tag of the list holds exactly the string s
any_string(tags, s) == \E i \in 1..Len(tags) : tag_string(tags[i]) = s

\* tag.find('rp', string=s) is not None
has_rp(tag, s) == any_string(find_all(tag, "rp"), s)

\* tag.find(name).get_text().strip() if the tag is found, else ''
found_text(found) == IF found # <<>> THEN strip(get_text(found[1])) ELSE <<>>

\* rp_open, rp_close: an rp holding the parenthesis in either width
rp_open(tag) == has_rp(tag, <<"FULLWIDTH(">>) \/ has_rp(tag, <<"(">>)
rp_close(tag) == has_rp(tag, <<"FULLWIDTH)">>) \/ has_rp(tag, <<")">>)

\* the return value of process_ruby for a ruby tag
ruby_text(tag, base_text, rt_text) ==
    IF base_text # <<>> /\ rt_text # <<>>
    THEN base_text
         \o <<IF rp_open(tag) THEN "FULLWIDTH(" ELSE "(">>
         \o rt_text
         \o <<IF rp_close(tag) THEN "FULLWIDTH)" ELSE ")">>
    ELSE IF base_text # <<>> THEN base_text
    ELSE strip(get_text(tag))

\* process_ruby(tag)
process_ruby(tag) ==
    IF tag.name # "ruby" THEN strip(get_text(tag))
    ELSE Let1(found_text(find_all(tag, "rb")), LAMBDA base_text :
         Let1(found_text(find_all(tag, "rt")), LAMBDA rt_text :
             ruby_text(tag, base_text, rt_text)))

-----------------------------------------------------------------------------
(* ContentProcessor: content tree walker *)

BlockTags == {"p", "h1", "h2", "h3", "h4", "h5", "h6", "div", "section",
              "article", "main", "figure", "figcaption", "blockquote", "pre",
              "ul", "ol", "li", "dl", "dt", "dd", "table", "hr", "header",
              "footer", "aside"}
HeadingTags == {"h1", "h2", "h3", "h4", "h5", "h6"}

\* the fragments joined and nothing more: the variant against which the
\* normalization of paragraph text is checked
raw_text_of(frags) == concat(frags)

\* ' '.join(''.join(current_text_fragments).strip().split())
full_text_of(frags) == join(split_ws(strip(concat(frags)), <<>>, <<>>), <<" ">>)

\* The locals of one call: [items, frags, store, raised].
\* flush_text()
flush_text(st) ==
    IF st.frags = <<>> THEN st
    ELSE Let1(full_text_of(st.frags), LAMBDA full_text :
             [items |-> IF full_text # <<>>
                        THEN Append(st.items, [type |-> "paragraph",
                                               text |-> full_text])
                        ELSE st.items,
              frags |-> <<>>, store |-> st.store, raised |-> st.raised])

\* nested_item['role'] = tag_name for the paragraphs of a heading
with_role(nested_items, tag_name) ==
    [i \in 1..Len(nested_items) |->
        IF nested_items[i].type = "paragraph"
        THEN [type |-> "paragraph", text |-> nested_items[i].text,
              role |-> tag_name]
        ELSE nested_items[i]]

\* if image_info := self.process_image(...): items.append(image_info)
\* r is what process_image returned; an exception leaves the loop
append_image(st, r) ==
    IF r.raised
    THEN [items |-> st.items, frags |-> st.frags, store |-> st.store,
          raised |-> TRUE]
    ELSE [items |-> IF r.info # NoImage THEN Append(st.items, r.info)
                    ELSE st.items,
          frags |-> st.frags, store |-> r.store, raised |-> FALSE]

\* for svg_img in elem.find_all('image'): process_image, append
RECURSIVE svg_images(_, _, _, _, _)
svg_images(items, st, images, context, base_href) ==
    IF images = <<>> \/ st.raised THEN st
    ELSE svg_images(items,
             append_image(st, process_image(items, st.store, Head(images),
                                            context, base_href)),
             Tail(images), context, base_href)

\* one inline item emitted as it is, after a flush: the variant against
\* which the merging of inline text is checked
merge_item_apart(st, item) ==
    Let1(flush_text(st), LAMBDA flushed :
        [items |-> Append(flushed.items, item), frags |-> <<>>,
         store |-> flushed.store, raised |-> flushed.raised])

\* one inline item whose text joins the fragments after a space: the
\* variant against which the joining without separator is checked
merge_item_spaced(st, item) ==
    IF item.type = "paragraph"
    THEN [items |-> st.items, frags |-> st.frags \o <<<<" ">>, item.text>>,
          store |-> st.store, raised |-> st.raised]
    ELSE merge_item_apart(st, item)

\* one inline item: text joins the fragments, an image is emitted between
\* two flushes
merge_item(st, item) ==
    IF item.type = "paragraph"
    THEN [items |-> st.items, frags |-> Append(st.frags, item.text),
          store |-> st.store, raised |-> st.raised]
    ELSE IF item.type = "image"
    THEN Let1(flush_text(st), LAMBDA flushed :
             [items |-> Append(flushed.items, item), frags |-> <<>>,
              store |-> flushed.store, raised |-> flushed.raised])
    ELSE st

\* for item in inline_items: merge text, emit images
RECURSIVE merge_inline(_, _)
merge_inline(st, inline_items) ==
    IF inline_items = <<>> THEN st
    ELSE merge_inline(merge_item(st, Head(inline_items)), Tail(inline_items))

\* a block-level child whose items are merged as those of an inline child
\* are: the variant against which the break around a block is checked
walk_block_merged(st1, nested, tag_name) ==
    merge_inline([items |-> st1.items, frags |-> st1.frags,
                  store |-> nested.store, raised |-> st1.raised],
                 nested.items)

\* a block-level child, after the flush before it and the recursion into
\* it: mark heading paragraphs, splice, flush
\* (the img and svg cases nested in this branch of the source are
\* unreachable: neither name is in the list of block tags)
walk_block(st1, nested, tag_name) ==
    [items |-> st1.items \o (IF tag_name \in HeadingTags
                             THEN with_role(nested.items, tag_name)
                             ELSE nested.items),
     frags |-> <<>>, store |-> nested.store, raised |-> st1.raised]

\* the image children handled by one iteration: the tag itself for img and
\* image, the image descendants for svg
images_of(elem) ==
    IF elem.name = "svg" THEN find_all(elem, "image") ELSE <<elem>>

\* a standalone img or image child, or an svg child: flush, process the
\* images, flush (the flush after is skipped when an exception left the loop)
walk_image(items, st, elem, context, base_href) ==
    Let1(svg_images(items, flush_text(st), images_of(elem),
                    IF elem.name = "svg" THEN Append(context, "SVG") ELSE context,
                    base_href),
         LAMBDA r : IF r.raised THEN r ELSE flush_text(r))

\* current_text_fragments[-1].strip().endswith(' ')
last_ends_with_space(frags) ==
    Let1(strip(frags[Len(frags)]), LAMBDA last :
        last # <<>> /\ last[Len(last)] = " ")

\* a br child
walk_br(st) ==
    IF st.frags = <<>> THEN st
    ELSE IF last_ends_with_space(st.frags) THEN st
    ELSE [items |-> st.items, frags |-> Append(st.frags, <<" ">>),
          store |-> st.store, raised |-> st.raised]

\* any other child, after the recursion into it: merge the result as
\* inline content
walk_inline(st, inline) ==
    merge_inline([items |-> st.items, frags |-> st.frags,
                  store |-> inline.store, raised |-> st.raised],
                 inline.items)

\* a child that is recursed into; st1 is the state after the flush that
\* precedes a block
walk_nested(st1, nested, tag_name) ==
    IF tag_name \in BlockTags THEN walk_block(st1, nested, tag_name)
    ELSE walk_inline(st1, nested)

RECURSIVE process_tag_content(_, _, _, _, _)

\* one iteration of "for elem in tag.contents"
walk_child(items, st, elem, context, base_href) ==
    IF is_str(elem)
    THEN [items |-> st.items, frags |-> Append(st.frags, elem.text),
          store |-> st.store, raised |-> st.raised]
    ELSE IF elem.name \in {"img", "image", "svg"}
         THEN walk_image(items, st, elem, context, base_href)
    ELSE IF elem.name = "br" THEN walk_br(st)
    ELSE IF elem.name = "ruby"
         THEN [items |-> st.items, frags |-> Append(st.frags, process_ruby(elem)),
               store |-> st.store, raised |-> st.raised]
    ELSE Let1(IF elem.name \in BlockTags THEN flush_text(st) ELSE st, LAMBDA st1 :
             walk_nested(st1,
                 process_tag_content(items, st1.store, elem,
                                     Append(context, elem.name), base_href),
                 elem.name))

\* "for elem in tag.contents" inside try: an exception ends the loop
RECURSIVE walk_children(_, _, _, _, _, _)
walk_children(items, st, contents, i, context, base_href) ==
    IF i > Len(contents) \/ st.raised THEN st
    ELSE walk_children(items,
             walk_child(items, st, contents[i], context, base_href),
             contents, i + 1, context, base_href)

\* the return value: the items, and the image store afterwards
tag_content(done) == [items |-> done.items, store |-> done.store]

\* process_tag_content(tag, config, context, base_href): [items, store]
process_tag_content(items, store, tag, context, base_href) ==
    tag_content(flush_text(walk_children(items,
                    [items |-> <<>>, frags |-> <<>>, store |-> store,
                     raised |-> FALSE],
                    tag.ch, 1, context, base_href)))

\* structured_content.extend(tag_content)
extend(acc, r) == [items |-> acc.items \o r.items, store |-> r.store]

\* the context string of a walk started by process_document_item
direct_context(tag) ==
    IF tag.name = "body" THEN <<"Body Direct">> ELSE <<"Child", tag.name>>

\* for tag in direct_children: process_tag_content(tag, ...), extend
RECURSIVE walk_direct(_, _, _, _, _)
walk_direct(items, acc, direct_children, i, base_href) ==
    IF i > Len(direct_children) THEN acc
    ELSE walk_direct(items,
             extend(acc, process_tag_content(items, acc.store, direct_children[i],
                             direct_context(direct_children[i]), base_href)),
             direct_children, i + 1, base_href)

\* body.find_all(recursive=False): the children of body that are tags
direct_children_of(body) == SelectSeq(body.ch, LAMBDA e : ~is_str(e))

\* the tags process_document_item walks: the direct children of body, or
\* body itself when it has none
walked_tags(body) ==
    IF direct_children_of(body) = <<>> THEN <<body>> ELSE direct_children_of(body)

\* process_document_item returning normally, with the items it appended;
\* raised tells whether an exception left the method, which its
\* try/except never lets happen
returned(r) == [items |-> r.items, store |-> r.store, raised |-> FALSE]

\* the except branch raising the error again instead of logging it: the
\* variant against which the containment of errors in process() is checked
raised_again(store) == [items |-> <<>>, store |-> store, raised |-> TRUE]

\* the early return for a document without body, and the except branch for
\* a document whose content cannot be read or parsed
nothing_added(store) == [items |-> <<>>, store |-> store, raised |-> FALSE]

\* process_document_item without its try/except: the variant against which
\* the containment of a document's failure is checked
process_document_item_no_try(items, store, item) ==
    IF ~item.readable \/ ~item.content.parsed
    THEN [items |-> <<>>, store |-> store, raised |-> TRUE]
    ELSE IF ~item.content.has_body THEN nothing_added(store)
    ELSE returned(walk_direct(items, [items |-> <<>>, store |-> store],
                              walked_tags(item.content.body), 1,
                              unquote(item.name)))

\* A document's content is [parsed, has_body, body].
\* process_document_item(item, config): [items, store, raised], the items
\* appended to structured_content and the image store afterwards
process_document_item(items, store, item) ==
    IF ~item.readable THEN nothing_added(store)
    ELSE IF ~item.content.parsed THEN nothing_added(store)
    ELSE IF ~item.content.has_body THEN nothing_added(store)
    ELSE returned(walk_direct(items, [items |-> <<>>, store |-> store],
                              walked_tags(item.content.body), 1,
                              unquote(item.name)))

-----------------------------------------------------------------------------
(* EPUBProcessor: navigation resolver *)

Digits == <<"1", "2", "3", "4", "5", "6", "7", "8", "9">>

\* the strings of a tag, in document order
RECURSIVE all_strings(_)
all_strings(tag) ==
    IF is_str(tag) THEN <<tag.text>>
    ELSE concat([i \in 1..Len(tag.ch) |-> all_strings(tag.ch[i])])

strip_each(strings) == [i \in 1..Len(strings) |-> strip(strings[i])]

\* link.stripped_strings
stripped_strings(tag) == SelectSeqNonEmpty(strip_each(all_strings(tag)))

\* the navigation item: the first with the 'nav' property, else the first
\* of type ITEM_NAVIGATION; 0 when there is neither
nav_item_epub3(items) == item_with(items, "nav", TRUE, 1)
nav_item_ncx(items) == item_with(items, "type", "navigation", 1)

\* self.chapters.append((normalized_href, title)) if normalized_href
append_chapter(acc, normalized_href, title) ==
    IF normalized_href # <<>> THEN Append(acc, <<normalized_href, title>>)
    ELSE acc

\* nav_label.find('text') of the first navLabel, <<>> when either is missing
label_texts(labels) ==
    IF labels = <<>> THEN <<>> ELSE find_all(labels[1], "text")

\* the title of a navPoint
ncx_title(texts, count) ==
    IF texts # <<>> THEN strip(get_text(texts[1]))
    ELSE <<"NCX", Digits[count + 1]>>

\* one navPoint of an NCX document
ncx_point(nav_point, contents, nav_doc_base_href, acc) ==
    IF contents = <<>> THEN acc
    ELSE IF contents[1].attrs.src = <<>> THEN acc
    ELSE append_chapter(acc,
             normalize_nav_href(nav_doc_base_href, contents[1].attrs.src),
             ncx_title(label_texts(find_all(nav_point, "navLabel")), Len(acc)))

\* the navPoints taken from the last to the first: the variant against
\* which the order of the flattened chapters is checked
RECURSIVE ncx_chapters_last_first(_, _, _)
ncx_chapters_last_first(nav_points, nav_doc_base_href, acc) ==
    IF nav_points = <<>> THEN acc
    ELSE ncx_chapters_last_first(
             SubSeq(nav_points, 1, Len(nav_points) - 1), nav_doc_base_href,
             ncx_point(nav_points[Len(nav_points)],
                       find_all(nav_points[Len(nav_points)], "content"),
                       nav_doc_base_href, acc))

\* the chapters of an NCX document, one navPoint after the other
RECURSIVE ncx_chapters(_, _, _)
ncx_chapters(nav_points, nav_doc_base_href, acc) ==
    IF nav_points = <<>> THEN acc
    ELSE ncx_chapters(Tail(nav_points), nav_doc_base_href,
             ncx_point(Head(nav_points), find_all(Head(nav_points), "content"),
                       nav_doc_base_href, acc))

\* ' '.join(link.stripped_strings) or the numbered placeholder
link_text_of(joined, count) ==
    IF joined # <<>> THEN joined ELSE <<"Link", Digits[count + 1]>>

\* an anchor taken whatever its href, fragment-only ones included: the
\* variant against which the empty chapter list is checked
xhtml_link_any_href(link, nav_doc_base_href, acc) ==
    append_chapter(acc,
        normalize_nav_href(nav_doc_base_href, link.attrs.href),
        link_text_of(join(stripped_strings(link), <<" ">>), Len(acc)))

\* one anchor of an XHTML navigation document
xhtml_link(link, nav_doc_base_href, acc) ==
    IF link.attrs.href = <<>> THEN acc
    ELSE IF startswith(link.attrs.href, <<"#">>) THEN acc
    ELSE append_chapter(acc,
             normalize_nav_href(nav_doc_base_href, link.attrs.href),
             link_text_of(join(stripped_strings(link), <<" ">>), Len(acc)))

\* the chapters of an XHTML navigation document, one anchor after the other
RECURSIVE xhtml_chapters(_, _, _)
xhtml_chapters(links, nav_doc_base_href, acc) ==
    IF links = <<>> THEN acc
    ELSE xhtml_chapters(Tail(links), nav_doc_base_href,
                        xhtml_link(Head(links), nav_doc_base_href, acc))

\* the first tag of the first non-empty list, <<>> when all are empty
first_of(a, b, c) ==
    IF a # <<>> THEN <<a[1]>>
    ELSE IF b # <<>> THEN <<b[1]>>
    ELSE IF c # <<>> THEN <<c[1]>>
    ELSE <<>>

\* the nav elements with epub:type="toc"
toc_navs(navs) == SelectSeq(navs, LAMBDA n : n.attrs.epub_type = "toc")

\* soup.find('nav', attrs={'epub:type': 'toc'}) or soup.find('nav') or soup.body
nav_container(root) ==
    Let1(find_all(root, "nav"), LAMBDA navs :
        first_of(toc_navs(navs), navs, find_all(root, "body")))

\* nav_container.find_all('a', href=True)
links_of(container) ==
    IF container = <<>> THEN <<>>
    ELSE SelectSeq(find_all(container[1], "a"), LAMBDA a : a.attrs.href # <<>>)

\* extract_chapters, once the navigation item is chosen
nav_chapters(nav_item, is_ncx) ==
    IF ~nav_item.readable THEN <<>>
    ELSE IF is_ncx
    THEN ncx_chapters(find_all(nav_item.content, "navPoint"),
                      unquote(nav_item.name), <<>>)
    ELSE xhtml_chapters(links_of(nav_container(nav_item.content)),
                        unquote(nav_item.name), <<>>)

\* the index of the navigation item and whether it is an NCX; index 0 when
\* the book has none
choose_nav(epub3, ncx) ==
    IF epub3 # 0 THEN [i |-> epub3, is_ncx |-> FALSE]
    ELSE [i |-> ncx, is_ncx |-> ncx # 0]

\* extract_chapters(): the value of self.chapters afterwards
extract_chapters(items) ==
    Let1(choose_nav(nav_item_epub3(items), nav_item_ncx(items)), LAMBDA nav :
        IF nav.i = 0 THEN <<>>
        ELSE nav_chapters(items[nav.i], nav.is_ncx))

-----------------------------------------------------------------------------
(* EPUBProcessor: serializer *)

\* One iteration with the paragraph and image counters starting again at
\* each chapter: the variant against which the numbering across the whole
\* file is checked.
xml_item_per_chapter(x, item) ==
    LET n == Len(x.root)
        add(child) == [x.root EXCEPT ![n].children = Append(@, child)]
    IN  IF item.type = "chapter_start"
        THEN [root |-> Append(x.root, [id |-> <<"ch", x.chapter_count + 1>>,
                                       title |-> item.title,
                                       children |-> <<>>]),
              chapter_count |-> x.chapter_count + 1,
              paragraph_count |-> 0, image_count |-> 0]
        ELSE IF item.type = "paragraph"
        THEN IF n = 0 THEN x
             ELSE [x EXCEPT
                     !.paragraph_count = @ + 1,
                     !.root = add([tag |-> "paragraph",
                                   id |-> <<"p", x.paragraph_count + 1>>,
                                   role |-> IF "role" \in DOMAIN item
                                            THEN item.role ELSE "",
                                   text |-> item.text])]
        ELSE IF item.type = "image"
        THEN IF n = 0 THEN x
             ELSE [x EXCEPT
                     !.image_count = @ + 1,
                     !.root = add([tag |-> "image",
                                   id |-> <<"img", x.image_count + 1>>,
                                   src |-> item.filepath, alt |-> item.alt])]
        ELSE x

\* The XML tree is a sequence of chapter elements [id, title, children].
\* One iteration of "for item in structured_content"; x is
\* [root, chapter_count, paragraph_count, image_count].
xml_item(x, item) ==
    LET n == Len(x.root)
        add(child) == [x.root EXCEPT ![n].children = Append(@, child)]
    IN  IF item.type = "chapter_start"
        THEN [x EXCEPT !.chapter_count = @ + 1,
                       !.root = Append(@, [id |-> <<"ch", x.chapter_count + 1>>,
                                           title |-> item.title,
                                           children |-> <<>>])]
        ELSE IF item.type = "paragraph"
        THEN IF n = 0 THEN x
             ELSE [x EXCEPT
                     !.paragraph_count = @ + 1,
                     !.root = add([tag |-> "paragraph",
                                   id |-> <<"p", x.paragraph_count + 1>>,
                                   role |-> IF "role" \in DOMAIN item
                                            THEN item.role ELSE "",
                                   text |-> item.text])]
        ELSE IF item.type = "image"
        THEN IF n = 0 THEN x
             ELSE [x EXCEPT
                     !.image_count = @ + 1,
                     !.root = add([tag |-> "image",
                                   id |-> <<"img", x.image_count + 1>>,
                                   src |-> item.filepath, alt |-> item.alt])]
        ELSE x

RECURSIVE xml_items(_, _)
xml_items(x, content) ==
    IF content = <<>> THEN x
    ELSE xml_items(xml_item(x, Head(content)), Tail(content))

\* save_results_xml(): the root element written to the XML file
save_results_xml(content) ==
    xml_items([root |-> <<>>, chapter_count |-> 0, paragraph_count |-> 0,
               image_count |-> 0], content).root

NoFile == [written |-> FALSE, root |-> <<>>]

-----------------------------------------------------------------------------
(* The books of the model *)

Str1(t) == <<t>>
P(t) == Elem("p", <<Text(t)>>)

Item(id, name, type, nav, content, readable) ==
    [id |-> <<id>>, name |-> name, type |-> type, nav |-> nav,
     content |-> content, readable |-> readable]

Doc(body) == [parsed |-> TRUE, has_body |-> TRUE, body |-> body]

\* <html><p>Cover</p></html>: a document without body; body holds its root
NoBodyDoc ==
    [parsed |-> TRUE, has_body |-> FALSE,
     body |-> Elem("html", <<P(<<"C", "o", "v", "e", "r">>)>>)]

\* <h1>Title</h1><p>Hello <b>world</b></p><img src="a.png">
Chapter1Body ==
    Elem("body",
         <<Elem("h1", <<Text(<<"T", "i", "t", "l", "e">>)>>),
           Elem("p", <<Text(<<"H", "e", "l", "l", "o", " ">>),
                       Elem("b", <<Text(<<"w", "o", "r", "l", "d">>)>>)>>),
           Img("img", <<"a.png">>, "", "")>>)

\* Intro <div><h2>Sub</h2><p>Two</p><p><img src="../Images/c.png"/> cap </p>
\* </div> tail
Chapter2Body ==
    Elem("body",
         <<Text(<<"I", "n", "t", "r", "o", " ">>),
           Elem("div",
                <<Elem("h2", <<Text(<<"S", "u", "b">>)>>),
                  P(<<"T", "w", "o">>),
                  Elem("p", <<Img("img", <<".", ".", "/", "Images", "/", "c.png">>,
                                  "", ""),
                              Text(<<" ", "c", "a", "p", " ">>)>>)>>),
           Text(<<" ", "t", "a", "i", "l">>)>>)

\* text only: Four  text
Chapter4Body ==
    Elem("body", <<Text(<<"\n", "F", "o", "u", "r", " ", " ", "t", "e", "x", "t", "\n">>)>>)

\* <p>x<img src="a.png" width="inf">lost</p><p>tail</p>
\* <p>pre<img src="bad.png">mid<img src="missing.png">post</p>
Chapter5Body ==
    Elem("body",
         <<Elem("p", <<Text(<<"x">>), Img("img", <<"a.png">>, "inf", ""),
                       Text(<<"l", "o", "s", "t">>)>>),
           P(<<"t", "a", "i", "l">>),
           Elem("p", <<Text(<<"p", "r", "e">>), Img("img", <<"bad.png">>, "", ""),
                       Text(<<"m", "i", "d">>),
                       Img("img", <<"missing.png">>, "", ""),
                       Text(<<"p", "o", "s", "t">>)>>)>>)

Manifest ==
    <<Item("c1", <<"chapter1.xhtml">>, "document", FALSE, Doc(Chapter1Body), TRUE),
      Item("c2", <<"Text", "/", "chapter2.xhtml">>, "document", FALSE,
           Doc(Chapter2Body), TRUE),
      Item("c3", <<"chapter3.xhtml">>, "document", FALSE, Doc(Chapter4Body), FALSE),
      Item("c4", <<"chapter4.xhtml">>, "document", FALSE, Doc(Chapter4Body), TRUE),
      Item("c5", <<"Text", "/", "chapter5.xhtml">>, "document", FALSE,
           Doc(Chapter5Body), TRUE),
      Item("cover", <<"cover.xhtml">>, "document", FALSE, NoBodyDoc, TRUE),
      Item("css", <<"style.css">>, "other", FALSE, "css", TRUE),
      Item("ia", <<"a.png">>, "image", FALSE, "big", TRUE),
      Item("ib", <<"Images", "/", "b.png">>, "image", FALSE, "small", TRUE),
      Item("ic", <<"Images", "/", "c.png">>, "image", FALSE, "big", TRUE),
      Item("iw", <<"Images", "/", "w.png">>, "image", FALSE, "wide", TRUE),
      Item("ij", <<"bad.png">>, "image", FALSE, "junk", TRUE)>>

SpineIds == {<<"c1">>, <<"c2">>, <<"c3">>, <<"c4">>, <<"c5">>, <<"cover">>,
             <<"css">>, <<"ghost">>}

A(href, t) == Link("a", href, <<Text(t)>>)

\* nav.xhtml at the root of the book
NavRoot ==
    Item("nav", <<"nav.xhtml">>, "document", TRUE,
         Elem("html", <<Elem("body", <<
             [Elem("nav", <<
                 A(<<"chapter1.xhtml">>, <<"O", "n", "e">>),
                 A(<<"Text", "/", "chapter2.xhtml", "#", "s1">>, <<"T", "w", "o">>),
                 A(<<"#", "top">>, <<"T", "o", "p">>),
                 A(<<"chapter4.xhtml", "#", "a">>, <<"4", "A">>),
                 A(<<"chapter4.xhtml", "#", "b">>, <<"4", "B">>),
                 A(<<"Text", "/", "chapter5.xhtml">>, <<" ", "F", "i", "v", "e", " ">>),
                 A(<<"chapter3.xhtml">>, <<"T", "h", "r", "e", "e">>)
             >>) EXCEPT !.attrs.epub_type = "toc"]>>)>>),
         TRUE)

\* a navigation document whose anchors are all same-document fragments
NavFragments ==
    Item("nav", <<"nav.xhtml">>, "document", TRUE,
         Elem("html", <<Elem("body", <<Elem("nav", <<
             A(<<"#", "top">>, <<"T", "o", "p">>),
             A(<<"#", "end">>, <<"E", "n", "d">>)>>)>>)>>),
         TRUE)

\* Text/nav.xhtml: the hrefs of its anchors are relative to Text/
NavSub ==
    Item("nav", <<"Text", "/", "nav.xhtml">>, "document", TRUE,
         Elem("html", <<Elem("body", <<Elem("nav", <<
             A(<<"chapter2.xhtml", "#", "s1">>, <<"T", "w", "o">>),
             A(<<"Text", "/", "chapter5.xhtml", "#", "x">>, <<"F", "i", "v", "e">>),
             A(<<".", ".", "/", "chapter1.xhtml", "#", "top">>, <<"O", "n", "e">>)
         >>)>>)>>),
         TRUE)

NavPoint(label, src, children) ==
    Elem("navPoint",
         <<Elem("navLabel", <<Elem("text", <<Text(label)>>)>>),
           [Elem("content", <<>>) EXCEPT !.attrs.src = src]>> \o children)

\* toc.ncx with nested navigation points
NavNcx ==
    Item("ncx", <<"toc.ncx">>, "navigation", FALSE,
         Elem("ncx", <<Elem("navMap", <<
             NavPoint(<<"O", "n", "e">>, <<"chapter1.xhtml">>,
                 <<NavPoint(<<"T", "w", "o">>,
                            <<"Text", "/", "chapter2.xhtml", "#", "x">>, <<>>)>>),
             NavPoint(<<"4">>, <<"chapter4.xhtml">>, <<>>)>>)>>),
         TRUE)

\* nav.xhtml without the nav property: a navigation document only by name
NavUnflagged ==
    Item("navdoc", <<"nav.xhtml">>, "document", FALSE,
         Elem("html", <<Elem("body", <<Elem("nav", <<
             A(<<"chapter1.xhtml">>, <<"O", "n", "e">>)>>)>>)>>),
         TRUE)

\* a navigation document whose content cannot be read
NavUnreadable ==
    Item("nav", <<"nav.xhtml">>, "document", TRUE,
         Elem("html", <<Elem("body", <<Elem("nav", <<
             A(<<"chapter1.xhtml">>, <<"O", "n", "e">>)>>)>>)>>),
         FALSE)

NavChoices == {<<>>, <<NavRoot>>, <<NavFragments>>, <<NavNcx>>, <<NavSub>>,
               <<NavUnflagged>>, <<NavUnreadable>>}

\* book.get_items(): the manifest, the navigation item last
BookItems == Manifest \o book.nav

-----------------------------------------------------------------------------
(* EPUBProcessor.process, one step after the other *)

Store == [image_log |-> image_log, processed_images |-> processed_images,
          files |-> files]

\* a lookup that keeps the first title given for a href: the variant
\* against which the overwriting of earlier entries is checked
RECURSIVE chapter_href_map_first(_, _)
chapter_href_map_first(chs, href) ==
    IF chs = <<>> THEN <<>>
    ELSE IF chs[1][1] = href THEN <<chs[1][2]>>
    ELSE chapter_href_map_first(Tail(chs), href)

\* chapter_href_map = {href: title for href, title in self.chapters}
RECURSIVE chapter_href_map(_, _)
chapter_href_map(chs, href) ==
    IF chs = <<>> THEN <<>>
    ELSE IF chs[Len(chs)][1] = href THEN <<chs[Len(chs)][2]>>
    ELSE chapter_href_map(SubSeq(chs, 1, Len(chs) - 1), href)

\* the manifest item of a spine entry: by href, else by id, else 0
spine_item(items, item_identifier) ==
    Let1(get_item_with_href(items, item_identifier), LAMBDA i :
        IF i # 0 THEN i ELSE get_item_with_id(items, item_identifier))

\* process() going on whatever the file is: the variant against which the
\* failure on a book that cannot be opened is checked
OpenAnyway ==
    /\ pc = "start"
    /\ pc' = "extract_chapters"
    /\ UNCHANGED translator_vars
    /\ UNCHANGED <<book, chapters, structured_content, image_log,
                   processed_images, files, processed_hrefs, spine_pos, origin,
                   walked, xml_file, result, walk_tag, calls>>

\* process(): the file is missing, or read_epub raises
Open ==
    /\ pc = "start"
    /\ IF ~book.exists \/ ~book.readable
       THEN pc' = "done" /\ result' = "False"
       ELSE pc' = "extract_chapters" /\ result' = result
    /\ UNCHANGED translator_vars
    /\ UNCHANGED <<book, chapters, structured_content, image_log,
                   processed_images, files, processed_hrefs, spine_pos, origin,
                   walked, xml_file, walk_tag, calls>>

\* process(): self.extract_chapters()
ExtractChapters ==
    /\ pc = "extract_chapters"
    /\ chapters' = extract_chapters(BookItems)
    /\ pc' = "process_content"
    /\ UNCHANGED translator_vars
    /\ UNCHANGED <<book, structured_content, image_log, processed_images,
                   files, processed_hrefs, spine_pos, origin, walked, xml_file,
                   result, walk_tag, calls>>

\* structured_content after the chapter_start of a spine document, if the
\* navigation names it; title is <<>> when it does not
chapter_start(content, title, item_href_normalized) ==
    IF title # <<>>
    THEN Append(content, [type |-> "chapter_start", title |-> title[1],
                          href |-> item_href_normalized])
    ELSE content

\* a spine document whose chapter_start is appended after its items: the
\* variant against which the order of the content is checked
spine_document_late(items, chs, content, store, hrefs, item, item_href_normalized) ==
    Let1(process_document_item(items, store, item), LAMBDA r :
        [content |-> chapter_start(content \o r.items,
                         chapter_href_map(chs, item_href_normalized),
                         item_href_normalized),
         store |-> r.store,
         hrefs |-> hrefs \cup {item_href_normalized},
         walked |-> TRUE,
         raised |-> r.raised])

\* a spine document whose href is recorded only if its content could be
\* read: the variant against which the recording of a failed document is
\* checked
spine_document_retried(items, chs, content, store, hrefs, item, item_href_normalized) ==
    Let1(process_document_item(items, store, item), LAMBDA r :
        [content |-> chapter_start(content,
                         chapter_href_map(chs, item_href_normalized),
                         item_href_normalized) \o r.items,
         store |-> r.store,
         hrefs |-> IF ~item.readable THEN hrefs
                   ELSE hrefs \cup {item_href_normalized},
         walked |-> TRUE,
         raised |-> r.raised])

\* a spine document not seen before: chapter_start, process_document_item,
\* processed_hrefs.add
spine_document(items, chs, content, store, hrefs, item, item_href_normalized) ==
    Let1(process_document_item(items, store, item), LAMBDA r :
        [content |-> chapter_start(content,
                         chapter_href_map(chs, item_href_normalized),
                         item_href_normalized) \o r.items,
         store |-> r.store,
         hrefs |-> IF r.raised THEN hrefs
                   ELSE hrefs \cup {item_href_normalized},
         walked |-> TRUE,
         raised |-> r.raised])

\* continue: the iteration leaves everything as it was
skipped(content, store, hrefs) ==
    [content |-> content, store |-> store, hrefs |-> hrefs, walked |-> FALSE,
     raised |-> FALSE]

\* a spine entry walked whether or not its href was seen before: the
\* variant against which the single walk of a document is checked
spine_found_again(items, chs, content, store, hrefs, item) ==
    spine_document(items, chs, content, store, hrefs, item,
                   normalize_item_href(item.name))

\* a spine entry that resolved to a document
spine_found(items, chs, content, store, hrefs, item) ==
    Let1(normalize_item_href(item.name), LAMBDA item_href_normalized :
        IF item_href_normalized \in hrefs
        THEN skipped(content, store, hrefs)
        ELSE spine_document(items, chs, content, store, hrefs, item,
                            item_href_normalized))

\* what one iteration of process_content's loop does to the state:
\* [content, store, hrefs, walked, raised]
spine_step(items, chs, content, store, hrefs, item_identifier) ==
    Let1(spine_item(items, item_identifier), LAMBDA i :
        IF i = 0 \/ items[i].type # "document"
        THEN skipped(content, store, hrefs)
        ELSE spine_found(items, chs, content, store, hrefs, items[i]))

\* process_content(): one spine entry.  An exception leaving the loop
\* would end process() in its except branch, which returns False.
ProcessSpineItem ==
    /\ pc = "process_content"
    /\ spine_pos <= Len(book.spine)
    /\ \E r \in {spine_step(BookItems, chapters, structured_content, Store,
                            processed_hrefs, book.spine[spine_pos])} :
           /\ structured_content' = r.content
           /\ origin' = origin \o [k \in 1..(Len(r.content) - Len(structured_content))
                                     |-> spine_pos]
           /\ image_log' = r.store.image_log
           /\ processed_images' = r.store.processed_images
           /\ files' = r.store.files
           /\ processed_hrefs' = r.hrefs
           /\ walked' = IF r.walked THEN walked \cup {spine_pos} ELSE walked
           /\ pc' = IF r.raised THEN "done" ELSE pc
           /\ result' = IF r.raised THEN "False" ELSE result
           /\ spine_pos' = IF r.raised THEN spine_pos ELSE spine_pos + 1
    /\ UNCHANGED translator_vars
    /\ UNCHANGED <<book, chapters, xml_file, walk_tag, calls>>

\* process_content(): the spine is exhausted
EndContent ==
    /\ pc = "process_content"
    /\ spine_pos > Len(book.spine)
    /\ pc' = "save_results_xml"
    /\ UNCHANGED translator_vars
    /\ UNCHANGED <<book, chapters, structured_content, image_log,
                   processed_images, files, processed_hrefs, spine_pos, origin,
                   walked, xml_file, result, walk_tag, calls>>

\* process(): self.save_results_xml(), return True
SaveResultsXml ==
    /\ pc = "save_results_xml"
    /\ xml_file' = [written |-> TRUE, root |-> save_results_xml(structured_content)]
    /\ result' = "True"
    /\ pc' = "done"
    /\ UNCHANGED translator_vars
    /\ UNCHANGED <<book, chapters, structured_content, image_log,
                   processed_images, files, processed_hrefs, spine_pos, origin,
                   walked, walk_tag, calls>>

\* XMLTranslator.__init__: nothing translated, nothing pending
NoTranslator ==
    /\ translation_cache = {}
    /\ elements_to_process = <<>>
    /\ stop_flag = FALSE
    /\ batch = <<>>
    /\ attempt = 0
    /\ outcome = "none"

RECURSIVE SeqsUpTo(_, _)
SeqsUpTo(S, n) ==
    IF n = 0 THEN {<<>>}
    ELSE LET shorter == SeqsUpTo(S, n - 1)
         IN  shorter \cup {Append(q, x) : q \in {r \in shorter : Len(r) = n - 1},
                                          x \in S}

Books ==
    {[exists |-> TRUE, readable |-> TRUE, nav |-> nav, spine |-> sp] :
        nav \in NavChoices, sp \in SeqsUpTo(SpineIds, MaxSpine)}
    \cup {[exists |-> FALSE, readable |-> FALSE, nav |-> <<>>, spine |-> <<>>],
          [exists |-> TRUE, readable |-> FALSE, nav |-> <<>>, spine |-> <<>>]}

\* the image directory at the start of a run: empty, or with a file an
\* earlier run left
OldFiles == {{}, {<<image_dir, <<compute_hash("big"), 200, 200, "jpg">>>>}}

InitWith(b) ==
    /\ book = b
    /\ chapters = <<>>
    /\ structured_content = <<>>
    /\ image_log = <<>>
    /\ processed_images = {}
    /\ processed_hrefs = {}
    /\ spine_pos = 1
    /\ origin = <<>>
    /\ walked = {}
    /\ xml_file = NoFile
    /\ result = None
    /\ calls = <<>>
    /\ NoTranslator

NoTag == Text(<<>>)

Init ==
    /\ \E b \in Books : InitWith(b)
    /\ pc = "start"
    /\ files = {}
    /\ walk_tag = NoTag

Next == Open \/ ExtractChapters \/ ProcessSpineItem \/ EndContent \/ SaveResultsXml

Spec == Init /\ [][Next]_vars

-----------------------------------------------------------------------------
(* The image store alone: process_image called on one tag after the other, *)
(* as the walker calls it within one run                                   *)

\* the width and height attributes a tag declares
DeclaredSizes == {<<"", "">>, <<"300", "300">>, <<"50", "">>, <<"", "200px">>}

\* the src attributes: a.png and Images/c.png hold the same bytes
ImageSources == {<<"a.png">>, <<"Images", "/", "c.png">>,
                 <<"Images", "/", "b.png">>, <<"Images", "/", "w.png">>,
                 <<"bad.png">>}

ImageTags ==
    {Img("img", src, size[1], size[2]) : src \in ImageSources,
                                         size \in DeclaredSizes}
    \cup {Img("img", <<"a.png">>, "inf", "")}

ImageBase == <<"chapter1.xhtml">>

EmptyBook == [exists |-> TRUE, readable |-> TRUE, nav |-> <<>>, spine |-> <<>>]

InitImage ==
    /\ InitWith(EmptyBook)
    /\ pc = "process_image"
    /\ files \in OldFiles
    /\ walk_tag = NoTag

\* one call of process_image from the walker: the item, if any, is appended;
\* calls remembers the tag, the bytes it resolved to and the outcome
ProcessImage ==
    /\ pc = "process_image"
    /\ Len(calls) < MaxCalls
    /\ \E tag \in ImageTags :
         \E r \in {process_image(Manifest, Store, tag, <<"Body">>, ImageBase)} :
           /\ structured_content' = IF r.info # NoImage
                                    THEN Append(structured_content, r.info)
                                    ELSE structured_content
           /\ image_log' = r.store.image_log
           /\ processed_images' = r.store.processed_images
           /\ files' = r.store.files
           /\ calls' = Append(calls,
                  [tag |-> tag,
                   data |-> extract_image_data(Manifest, get_source(tag), ImageBase),
                   info |-> r.info])
    /\ UNCHANGED translator_vars
    /\ UNCHANGED <<pc, book, chapters, processed_hrefs, spine_pos, origin, walked,
                   xml_file, result, walk_tag>>

NextImage == ProcessImage

SpecImage == InitImage /\ [][NextImage]_vars

-----------------------------------------------------------------------------
(* The walker alone: process_tag_content on one markup tree *)

WalkLeaves ==
    {Text(<<"x", " ", " ", "y">>), Text(<<" ", "\n">>), Text(<<"z">>),
     Img("img", <<"a.png">>, "", ""), Img("img", <<"bad.png">>, "", ""),
     Img("img", <<"missing.png">>, "", ""), Elem("br", <<>>)}

\* what may stand before and after a nested element
Before == {<<>>, <<Text(<<" ", "a", " ">>)>>}
After == {<<>>, <<Text(<<"\n", "b", "\t">>)>>, <<Elem("br", <<>>)>>}

WalkNames == {"p", "h2", "span", "div"}

\* the trees nested at most d deep
RECURSIVE Trees(_)
Trees(d) ==
    IF d = 0 THEN WalkLeaves
    ELSE WalkLeaves \cup
         {Elem(n, pre \o <<t>> \o post) :
              n \in WalkNames, pre \in Before, post \in After, t \in Trees(d - 1)}

InitWalk ==
    /\ InitWith(EmptyBook)
    /\ pc = "process_tag_content"
    /\ files = {}
    /\ walk_tag \in Trees(MaxDepth)

\* process_tag_content(walk_tag, ...), its items kept in structured_content
WalkTag ==
    /\ pc = "process_tag_content"
    /\ \E r \in {process_tag_content(Manifest, Store, walk_tag, <<"Body Direct">>,
                                     ImageBase)} :
           /\ structured_content' = r.items
           /\ image_log' = r.store.image_log
           /\ processed_images' = r.store.processed_images
           /\ files' = r.store.files
    /\ pc' = "returned"
    /\ UNCHANGED translator_vars
    /\ UNCHANGED <<book, chapters, processed_hrefs, spine_pos, origin, walked,
                   xml_file, result, walk_tag, calls>>

NextWalk == WalkTag

SpecWalk == InitWalk /\ [][NextWalk]_vars

-----------------------------------------------------------------------------
(* The source resolver alone: extract_image_data on one reference after    *)
(* the other                                                               *)

\* the manifest of the resolver runs: Text/a.png and a.png are two images,
\* and one name holds a space
ResolveItems ==
    Manifest \o
    <<Item("ta", <<"Text", "/", "a.png">>, "image", FALSE, "wide", TRUE),
      Item("sp", <<"a", " ", "b.png">>, "image", FALSE, "small", TRUE),
      Item("iu", <<"Images", "/", "u.png">>, "image", FALSE, "big", FALSE)>>

ResolveRefs ==
    {<<"a.png">>, <<".", "/", "a.png">>, <<"/", "a.png">>,
     <<"Images", "/", "c.png">>, <<".", ".", "/", "Images", "/", "c.png">>,
     <<"c.png">>, <<"u.png">>, <<"chapter2.xhtml">>, <<"a", "%20", "b.png">>,
     <<"missing.png">>,
     <<"data:image", "/", "png;base64", ",", "b64big">>,
     <<"data:image", "/", "png;base64", ",", "b64", ",", "big">>,
     <<"data:image", "/", "png;base64">>}

\* base_href: None, a document at the root, one in Text/, one in Images/
ResolveBases ==
    {<<>>, <<"chapter1.xhtml">>, <<"Text", "/", "chapter2.xhtml">>,
     <<"Images", "/", "gallery.xhtml">>}

InitResolve ==
    /\ InitWith(EmptyBook)
    /\ pc = "extract_image_data"
    /\ files = {}
    /\ walk_tag = NoTag

\* one call of extract_image_data; calls remembers its arguments and what
\* it returned
ExtractImageData ==
    /\ pc = "extract_image_data"
    /\ Len(calls) < MaxResolves
    /\ \E href \in ResolveRefs, base_href \in ResolveBases :
           calls' = Append(calls,
               [href |-> href, base_href |-> base_href,
                data |-> extract_image_data(ResolveItems, href, base_href)])
    /\ UNCHANGED translator_vars
    /\ UNCHANGED <<pc, book, chapters, structured_content, image_log,
                   processed_images, files, processed_hrefs, spine_pos, origin,
                   walked, xml_file, result, walk_tag>>

NextResolve == ExtractImageData

SpecResolve == InitResolve /\ [][NextResolve]_vars

-----------------------------------------------------------------------------
(* The walker on inline content: process_tag_content on a paragraph that   *)
(* holds one ruby or inline element between two texts                      *)

Rb(t) == Elem("rb", <<Text(t)>>)
Rt(t) == Elem("rt", <<Text(t)>>)
Rp(t) == Elem("rp", <<Text(t)>>)

\* ruby elements: with rb and rt, with rp in either width, without rb,
\* without gloss, with an empty gloss, without base
RubyTags ==
    {Elem("ruby", <<Rb(<<"B">>), Rt(<<"G">>)>>),
     Elem("ruby", <<Rb(<<" ", "B", " ">>), Rt(<<"G", "\n">>)>>),
     Elem("ruby", <<Rb(<<"B">>), Rp(<<"(">>), Rt(<<"G">>), Rp(<<")">>)>>),
     Elem("ruby", <<Rb(<<"B">>), Rp(<<"FULLWIDTH(">>), Rt(<<"G">>),
                    Rp(<<"FULLWIDTH)">>)>>),
     Elem("ruby", <<Text(<<"B">>), Rt(<<"G">>)>>),
     Elem("ruby", <<Text(<<"B">>), Rp(<<"(">>), Rt(<<"G">>), Rp(<<")">>)>>),
     Elem("ruby", <<Rb(<<"B">>)>>),
     Elem("ruby", <<Rb(<<"B">>), Rt(<<" ">>)>>),
     Elem("ruby", <<Rt(<<"G">>)>>)}

\* inline elements: text with white space inside their boundary, two
\* paragraphs, text around an image, nothing
InlineTags ==
    {Elem("span", <<Text(<<"c">>)>>),
     Elem("span", <<Text(<<" ", "c">>)>>),
     Elem("span", <<Text(<<"c", " ">>)>>),
     Elem("span", <<Text(<<"c", " ", " ", "d">>)>>),
     Elem("span", <<P(<<"c">>), P(<<"d">>)>>),
     Elem("span", <<Text(<<"c", " ">>), Img("img", <<"a.png">>, "", ""),
                    Text(<<" ", "d">>)>>),
     Elem("span", <<Text(<<" ">>)>>)}

\* the element, inside d inline elements at most
RECURSIVE Wrapped(_)
Wrapped(d) ==
    IF d = 0 THEN RubyTags \cup InlineTags
    ELSE Wrapped(d - 1) \cup {Elem("em", <<t>>) : t \in Wrapped(d - 1)}

\* what stands before and after the element in the paragraph
InlineBefore == {<<>>, <<Text(<<"a">>)>>, <<Text(<<"a", " ">>)>>}
InlineAfter == {<<>>, <<Text(<<"b">>)>>, <<Text(<<" ", "b">>)>>}

InlineTrees ==
    {Elem("p", pre \o <<t>> \o post) :
         pre \in InlineBefore, post \in InlineAfter, t \in Wrapped(MaxDepth - 1)}

InitInline ==
    /\ InitWith(EmptyBook)
    /\ pc = "process_tag_content"
    /\ files = {}
    /\ walk_tag \in InlineTrees

SpecInline == InitInline /\ [][NextWalk]_vars

-----------------------------------------------------------------------------
(* The navigation resolver alone: extract_chapters on one navigation       *)
(* document                                                                *)

NavLabel(t) == Elem("navLabel", <<Elem("text", <<Text(t)>>)>>)
Content(src) == [Elem("content", <<>>) EXCEPT !.attrs.src = src]

\* what a navPoint holds before its nested navPoints: a label and a
\* content reference, a content reference only, a label only
PointHeads ==
    {<<NavLabel(<<"O", "n", "e">>), Content(<<"chapter1.xhtml">>)>>,
     <<NavLabel(<<"T", "w", "o">>),
       Content(<<"Text", "/", "chapter2.xhtml", "#", "x">>)>>,
     <<NavLabel(<<" ", "4", " ">>), Content(<<"chapter4.xhtml">>)>>,
     <<Content(<<"Text", "/", "chapter5.xhtml">>)>>,
     <<NavLabel(<<"P", "a", "r", "t">>)>>}

\* the navPoints nested at most d deep, with one or two nested navPoints
RECURSIVE NcxPoints(_)
NcxPoints(d) ==
    IF d = 0 THEN {Elem("navPoint", head) : head \in PointHeads}
    ELSE NcxPoints(d - 1) \cup
         {Elem("navPoint", head \o <<c>>) :
              head \in PointHeads, c \in NcxPoints(d - 1)} \cup
         {Elem("navPoint", head \o <<c, c2>>) :
              head \in PointHeads, c \in NcxPoints(d - 1), c2 \in NcxPoints(0)}

\* toc.ncx with one or two navPoints in its navMap
NcxDocs ==
    {Item("ncx", <<"toc.ncx">>, "navigation", FALSE,
          Elem("ncx", <<Elem("navMap", points)>>), TRUE) :
        points \in {<<p>> : p \in NcxPoints(MaxDepth - 1)} \cup
                   {<<p, q>> : p \in NcxPoints(MaxDepth - 1), q \in NcxPoints(0)}}

\* anchors: to a document, to two places of one document, to a place of
\* the navigation document itself, without href, to the directory
NavAnchors ==
    {A(<<"chapter1.xhtml">>, <<"O", "n", "e">>),
     A(<<"chapter2.xhtml", "#", "s1">>, <<"S", "1">>),
     A(<<"chapter2.xhtml", "#", "s2">>, <<"S", "2">>),
     A(<<"#", "top">>, <<"T", "o", "p">>),
     A(<<>>, <<"N", "o">>),
     A(<<".", "/">>, <<"D", "i", "r">>)}

\* the navigation document, at the root or in Text/, with the anchors in
\* its nav element and, when outside holds, one anchor before that element
XhtmlNav(name, outside, anchors) ==
    Item("nav", name, "document", TRUE,
         Elem("html", <<Elem("body",
             (IF outside
              THEN <<A(<<"cover.xhtml">>, <<"C", "o", "v", "e", "r">>)>>
              ELSE <<>>)
             \o <<[Elem("nav", <<Elem("ol", anchors)>>)
                      EXCEPT !.attrs.epub_type = "toc"]>>)>>),
         TRUE)

XhtmlDocs ==
    {XhtmlNav(name, outside, anchors) :
        name \in {<<"nav.xhtml">>, <<"Text", "/", "nav.xhtml">>},
        outside \in BOOLEAN,
        anchors \in SeqsUpTo(NavAnchors, MaxLinks)}

InitNav ==
    /\ \E doc \in NcxDocs \cup XhtmlDocs :
           InitWith([exists |-> TRUE, readable |-> TRUE, nav |-> <<doc>>,
                     spine |-> <<>>])
    /\ pc = "extract_chapters"
    /\ files = {}
    /\ walk_tag = NoTag

NextNav == ExtractChapters

SpecNav == InitNav /\ [][NextNav]_vars

-----------------------------------------------------------------------------
(* The serializer alone: save_results_xml on one structured content        *)

\* the items a content is made of: the start of two chapters, a paragraph,
\* a paragraph of a heading, an image
XmlItems ==
    {[type |-> "chapter_start", title |-> <<"O", "n", "e">>,
      href |-> <<"chapter1.xhtml">>],
     [type |-> "chapter_start", title |-> <<"T", "w", "o">>,
      href |-> <<"Text", "/", "chapter2.xhtml">>],
     [type |-> "paragraph", text |-> <<"x">>],
     [type |-> "paragraph", text |-> <<"S", "u", "b">>, role |-> "h2"],
     [type |-> "image",
      filepath |-> <<image_dir, <<compute_hash("big"), 200, 200, "jpg">>>>,
      filename |-> <<compute_hash("big"), 200, 200, "jpg">>,
      alt |-> <<"Body">>]}

InitXml ==
    /\ structured_content \in SeqsUpTo(XmlItems, MaxItems)
    /\ origin = [k \in 1..Len(structured_content) |-> 1]
    /\ book = EmptyBook
    /\ chapters = <<>>
    /\ image_log = <<>>
    /\ processed_images = {}
    /\ processed_hrefs = {}
    /\ spine_pos = 1
    /\ walked = {}
    /\ xml_file = NoFile
    /\ result = None
    /\ calls = <<>>
    /\ NoTranslator
    /\ pc = "save_results_xml"
    /\ files = {}
    /\ walk_tag = NoTag

NextXml == SaveResultsXml

SpecXml == InitXml /\ [][NextXml]_vars

-----------------------------------------------------------------------------
(* XMLTranslator.translate_elements, one step after the other              *)

MAX_RETRIES == 3

\* the ids of the elements extract_translatable_elements finds, in document
\* order, and an id no element has
elements_to_translate == <<"ch1_title", "p1", "p2", "p3">>
ResponseIds == {"ch1_title", "p1", "p2", "p3", "p9"}

\* [elem for elem in elements if elem['id'] not in self.translation_cache]
not_in_cache(elements, cache) == SelectSeq(elements, LAMBDA id : id \notin cache)

\* elements_to_process[:min(len(elements_to_process), BATCH_SIZE)]
first_batch(elements) ==
    SubSeq(elements, 1, IF Len(elements) < BATCH_SIZE THEN Len(elements)
                        ELSE BATCH_SIZE)

\* a batch that failed is taken out of the queue: the variant against
\* which the keeping of a failed batch is checked
queue_without(elements, sent) ==
    SelectSeq(elements, LAMBDA id : \A n \in 1..Len(sent) : sent[n] # id)

\* the queue after a batch that failed completely: the filter on the cache
\* leaves it as it was
queue_after_failure(elements, sent) == elements

\* translate_elements: load_progress, extract_translatable_elements and
\* the first filter; the progress file holds any set of ids
TranslateElements ==
    /\ pc = "translate_elements"
    /\ \E loaded \in SUBSET ResponseIds :
           /\ translation_cache' = loaded
           /\ elements_to_process' = not_in_cache(elements_to_translate, loaded)
    /\ pc' = "while"
    /\ UNCHANGED <<stop_flag, batch, attempt, outcome>>
    /\ UNCHANGED extractor_vars

\* while elements_to_process and not stop_flag: the next batch is sent
SendBatch ==
    /\ pc = "while"
    /\ elements_to_process # <<>>
    /\ ~stop_flag
    /\ batch' = first_batch(elements_to_process)
    /\ attempt' = 0
    /\ pc' = "process_batch"
    /\ UNCHANGED <<translation_cache, elements_to_process, stop_flag, outcome>>
    /\ UNCHANGED extractor_vars

\* process_batch returned None: no translation is cached; unless the stop
\* flag ends the loop, the queue is filtered on the cache
ReturnNone ==
    /\ outcome' = IF stop_flag THEN "interrupted" ELSE "failed"
    /\ elements_to_process' =
           IF stop_flag THEN elements_to_process
           ELSE not_in_cache(queue_after_failure(elements_to_process, batch), translation_cache)
    /\ pc' = "while"
    /\ UNCHANGED <<translation_cache, attempt>>

\* process_batch returned translations: those with a text are cached, and
\* the queue is filtered on the cache
ReturnTranslations(translated) ==
    /\ translation_cache' = translation_cache \cup translated
    /\ elements_to_process' =
           not_in_cache(elements_to_process, translation_cache \cup translated)
    /\ outcome' = "translated"
    /\ pc' = "while"
    /\ UNCHANGED attempt

\* the attempt fails: an API error, no content, or no line that parses
AttemptFails ==
    IF attempt = MAX_RETRIES - 1 THEN ReturnNone
    ELSE /\ attempt' = attempt + 1
         /\ UNCHANGED <<pc, translation_cache, elements_to_process, outcome>>

\* process_batch: one attempt, and, when it returns, the rest of the loop
\* body.  The response carries any ids, each with a text or with none;
\* translated holds those with a text.
Attempt ==
    /\ pc = "process_batch"
    /\ IF stop_flag THEN ReturnNone
       ELSE \/ AttemptFails
            \/ \E translated \in SUBSET ResponseIds :
                   ReturnTranslations(translated)
    /\ UNCHANGED <<stop_flag, batch>>
    /\ UNCHANGED extractor_vars

\* the loop is left: the queue is empty or the stop flag is set
EndTranslation ==
    /\ pc = "while"
    /\ elements_to_process = <<>> \/ stop_flag
    /\ pc' = "finished"
    /\ UNCHANGED translator_vars
    /\ UNCHANGED extractor_vars

\* _handle_interrupt, at any moment of the loop
HandleInterrupt ==
    /\ pc \in {"while", "process_batch"}
    /\ ~stop_flag
    /\ stop_flag' = TRUE
    /\ UNCHANGED <<pc, translation_cache, elements_to_process, batch, attempt,
                   outcome>>
    /\ UNCHANGED extractor_vars

InitTranslate ==
    /\ InitWith(EmptyBook)
    /\ pc = "translate_elements"
    /\ files = {}
    /\ walk_tag = NoTag

NextTranslate ==
    TranslateElements \/ SendBatch \/ Attempt \/ EndTranslation \/ HandleInterrupt

SpecTranslate == InitTranslate /\ [][NextTranslate]_vars

-----------------------------------------------------------------------------
(* Properties of the image store, under SpecImage *)

\* the calls among the first n that resolved to the bytes d and gave an item
stored_calls(d) ==
    {i \in 1..Len(calls) : calls[i].data = <<d>> /\ calls[i].info # NoImage}

\* the entries of the image log for the hash h
log_entries(h) == {k \in 1..Len(image_log) : image_log[k].hash = h}

\* C1: within one run, byte-identical images are stored once: the image log
\* holds at most one entry per content hash, exactly one as soon as an item
\* was produced from those bytes, and all items produced from those bytes,
\* whatever the tag and its declared width and height, carry the file path
\* of that entry.
C1_OneStoredImage ==
    \A d \in ImageBytes :
        /\ Cardinality(log_entries(compute_hash(d))) <= 1
        /\ \A i \in stored_calls(d) :
               /\ Cardinality(log_entries(compute_hash(d))) = 1
               /\ \A k \in log_entries(compute_hash(d)) :
                      calls[i].info.filepath = image_log[k].filepath
               /\ \A j \in stored_calls(d) :
                      calls[i].info.filepath = calls[j].info.filepath

\* two tags with different sources and different declared sizes, the same
\* bytes behind them, both turned into items
C1_Witness ==
    \E d \in ImageBytes : \E i, j \in stored_calls(d) :
        /\ i < j
        /\ calls[i].tag.attrs.src # calls[j].tag.attrs.src
        /\ calls[i].tag.attrs.width # calls[j].tag.attrs.width

\* the decoded size of the bytes d is below the configured minimum
decodes_small(d) ==
    /\ image_open(d).ok
    /\ \/ image_open(d).width < min_image_width
       \/ image_open(d).height < min_image_height

\* C6: an image whose decoded width or height is below the configured
\* minimum never produces an image item, whatever width and height its tag
\* declares and whatever was saved before.
C6_SmallImageNeverAnItem ==
    \A i \in 1..Len(calls) :
        (calls[i].data # <<>> /\ decodes_small(calls[i].data[1]))
            => calls[i].info = NoImage

\* a tag declaring no size, on an image that decodes small: no item
C6_Witness ==
    \E i \in 1..Len(calls) :
        /\ calls[i].data # <<>>
        /\ decodes_small(calls[i].data[1])
        /\ calls[i].tag.attrs.width = ""
        /\ calls[i].tag.attrs.height = ""
        /\ calls[i].info = NoImage

-----------------------------------------------------------------------------
(* Properties of the walker, under SpecWalk *)

paragraphs(content) ==
    {k \in 1..Len(content) : content[k].type = "paragraph"}

\* t is non-empty, starts and ends with a character that is no whitespace,
\* and holds no two whitespace characters in a row
normalized_text(t) ==
    /\ t # <<>>
    /\ t[1] \notin Whitespace
    /\ t[Len(t)] \notin Whitespace
    /\ \A n \in 1..(Len(t) - 1) :
           ~(t[n] \in Whitespace /\ t[n + 1] \in Whitespace)

\* C2: every paragraph item process_tag_content emits, for any tree and at
\* any depth of nesting, has a text that is non-empty, has no leading or
\* trailing whitespace and no run of two or more whitespace characters.
C2_ParagraphsNormalized ==
    \A k \in paragraphs(structured_content) :
        normalized_text(structured_content[k].text)

\* a walk over a nested element whose paragraph has text from both sides of
\* the nested element, joined by single spaces
C2_Witness ==
    /\ pc = "returned"
    /\ walk_tag.ch # <<>>
    /\ \E k \in paragraphs(structured_content) :
           \E n \in 1..Len(structured_content[k].text) :
               /\ structured_content[k].text[n] = " "
               /\ structured_content[k].text[1] = "a"
               /\ structured_content[k].text[Len(structured_content[k].text)] = "b"

\* the characters of s that are no whitespace
letters(s) == SelectSeq(s, LAMBDA c : c \notin Whitespace)

\* the texts of the paragraphs of a content, one after the other
paragraph_text(content) ==
    concat([k \in 1..Len(content) |->
               IF content[k].type = "paragraph" THEN content[k].text ELSE <<>>])

\* the img elements below a node
images_in(node) == {find_all(node, "img")[k] : k \in 1..Len(find_all(node, "img"))}

\* the reference of the image resolves to nothing, or to the bytes that are
\* no image
fails(img) ==
    LET data == extract_image_data(Manifest, get_source(img), ImageBase)
    IN  data = <<>> \/ data[1] = "junk"

EmptyStore == [image_log |-> <<>>, processed_images |-> {}, files |-> {}]

\* C16: an image whose reference resolves to nothing, or whose bytes do
\* not decode, is skipped without error: process_image raises nothing,
\* returns no item and leaves the image store as it was; the walk emits no
\* image item, the image log, the stored hashes and the image files stay
\* as they were, and all the text around the image is in the paragraphs.
C16_FailingImageSkipped ==
    (images_in(walk_tag) # {} /\ \A img \in images_in(walk_tag) : fails(img)) =>
        /\ \A img \in images_in(walk_tag) :
               LET r == process_image(Manifest, Store, img, <<"Body Direct">>,
                                      ImageBase)
               IN  /\ ~r.raised
                   /\ r.info = NoImage
                   /\ r.store = Store
        /\ Store = EmptyStore
        /\ pc = "returned" =>
               /\ \A k \in 1..Len(structured_content) :
                      structured_content[k].type = "paragraph"
               /\ letters(paragraph_text(structured_content))
                      = letters(get_text(walk_tag))

\* a walk over " a ", an image whose bytes do not decode, and "b": the two
\* paragraphs and no image
C16_Witness ==
    /\ pc = "returned"
    /\ Len(walk_tag.ch) = 3
    /\ walk_tag.ch[2].name = "img"
    /\ walk_tag.ch[2].attrs.src = <<"bad.png">>
    /\ structured_content = <<[type |-> "paragraph", text |-> <<"a">>],
                              [type |-> "paragraph", text |-> <<"b">>]>>
    /\ image_log = <<>>

\* the positions of the children of a node that are block-level elements
block_children(node) ==
    {i \in 1..Len(node.ch) :
        ~is_str(node.ch[i]) /\ node.ch[i].name \in BlockTags}

\* the items of a walk over these children alone
walk_of(children) ==
    process_tag_content(Manifest, EmptyStore, Elem("div", children),
                        <<"Body Direct">>, ImageBase).items

\* the items produced inside a block child, with the role a heading gives
items_inside(block) ==
    LET nested == process_tag_content(Manifest, EmptyStore, block,
                                      <<"Body Direct", block.name>>, ImageBase).items
    IN  IF block.name \in HeadingTags THEN with_role(nested, block.name)
        ELSE nested

ParagraphA == [type |-> "paragraph", text |-> <<"a">>]
ParagraphB == [type |-> "paragraph", text |-> <<"b">>]

\* C18: a block child closes the text run before it and opens a new one
\* after it: the items of the walk are those of the children before the
\* block, then the items produced inside the block, then those of the
\* children after it; the text " a " before the block and the text "b"
\* after it are paragraphs of their own, the first and the last.
C18_BlockSeparatesText ==
    pc = "returned" =>
        \A i \in block_children(walk_tag) :
            LET ch == walk_tag.ch
                before == walk_of(SubSeq(ch, 1, i - 1))
                after == walk_of(SubSeq(ch, i + 1, Len(ch)))
            IN  /\ structured_content = before \o items_inside(ch[i]) \o after
                /\ (i > 1 /\ ch[1] = Text(<<" ", "a", " ">>)) =>
                       before = <<ParagraphA>>
                /\ (i < Len(ch) /\ ch[Len(ch)] = Text(<<"\n", "b", "\t">>)) =>
                       after = <<ParagraphB>>
                /\ (/\ i > 1 /\ ch[1] = Text(<<" ", "a", " ">>)
                    /\ i < Len(ch) /\ ch[Len(ch)] = Text(<<"\n", "b", "\t">>)) =>
                       /\ Len(structured_content) >= 2
                       /\ structured_content[1] = ParagraphA
                       /\ structured_content[Len(structured_content)] = ParagraphB

\* a walk over " a ", a block with text and "b": the paragraph "a" first,
\* the paragraph "b" last, a paragraph of the block between them
C18_Witness ==
    /\ pc = "returned"
    /\ Len(walk_tag.ch) = 3
    /\ 2 \in block_children(walk_tag)
    /\ Len(structured_content) >= 3
    /\ structured_content[1] = ParagraphA
    /\ structured_content[Len(structured_content)] = ParagraphB
    /\ structured_content[2].type = "paragraph"

\* the positions of the children of a node that are walked as inline
\* content: elements that are no block, no image, no line break, no ruby
inline_children(node) ==
    {i \in 1..Len(node.ch) :
        /\ ~is_str(node.ch[i])
        /\ node.ch[i].name \notin BlockTags
        /\ node.ch[i].name \notin {"img", "image", "svg", "br", "ruby"}}

\* the node is, or holds, an image that is stored
shows_image(node) ==
    \/ (node.name = "img" /\ ~fails(node))
    \/ \E img \in images_in(node) : ~fails(img)

\* the first child that shows an image, 0 when none does
first_showing(children) ==
    IF \E i \in 1..Len(children) : shows_image(children[i])
    THEN CHOOSE i \in 1..Len(children) :
             /\ shows_image(children[i])
             /\ \A j \in 1..(i - 1) : ~shows_image(children[j])
    ELSE 0

\* the text of a node that precedes, and that follows, the image it shows
RECURSIVE text_before_image(_)
text_before_image(node) ==
    IF is_str(node) THEN node.text
    ELSE IF first_showing(node.ch) = 0 THEN <<>>
    ELSE concat([j \in 1..(first_showing(node.ch) - 1) |-> get_text(node.ch[j])])
         \o text_before_image(node.ch[first_showing(node.ch)])

RECURSIVE text_after_image(_)
text_after_image(node) ==
    IF is_str(node) THEN <<>>
    ELSE IF first_showing(node.ch) = 0 THEN <<>>
    ELSE text_after_image(node.ch[first_showing(node.ch)])
         \o concat([j \in 1..(Len(node.ch) - first_showing(node.ch)) |->
                       get_text(node.ch[first_showing(node.ch) + j])])

images(content) == {k \in 1..Len(content) : content[k].type = "image"}

\* C19: the text inside an inline child is merged into the text around it
\* and never stands as a paragraph of its own: without a stored image
\* inside the child the walk gives one paragraph at most, with all the
\* text; an image inside the child is emitted where it stands: one
\* paragraph at most before it, with the text that precedes it in the
\* parent and in the child, and one at most after it, with the text that
\* follows.
C19_InlineMergedImageInPlace ==
    (pc = "returned" /\ inline_children(walk_tag) # {}) =>
        IF ~shows_image(walk_tag)
        THEN /\ Len(structured_content) <= 1
             /\ images(structured_content) = {}
             /\ letters(paragraph_text(structured_content))
                    = letters(get_text(walk_tag))
        ELSE \E k \in images(structured_content) :
                 /\ images(structured_content) = {k}
                 /\ k <= 2
                 /\ Len(structured_content) <= k + 1
                 /\ letters(paragraph_text(SubSeq(structured_content, 1, k - 1)))
                        = letters(text_before_image(walk_tag))
                 /\ letters(paragraph_text(SubSeq(structured_content, k + 1,
                                                  Len(structured_content))))
                        = letters(text_after_image(walk_tag))

\* a walk over " a ", a span holding " a ", an image and "b", and "b": the
\* paragraph "a a", the image, the paragraph "b b"
C19_Witness ==
    /\ pc = "returned"
    /\ Len(walk_tag.ch) = 3
    /\ inline_children(walk_tag) = {2}
    /\ Len(structured_content) = 3
    /\ structured_content[1] = [type |-> "paragraph", text |-> <<"a", " ", "a">>]
    /\ structured_content[2].type = "image"
    /\ structured_content[3] = [type |-> "paragraph", text |-> <<"b", " ", "b">>]

\* the positions of the line breaks among the children of a node
br_children(node) ==
    {i \in 1..Len(node.ch) : ~is_str(node.ch[i]) /\ node.ch[i].name = "br"}

\* the locals of the walk of a node when it reaches its child at i
locals_before(node, i) ==
    walk_children(Manifest,
                  [items |-> <<>>, frags |-> <<>>, store |-> EmptyStore,
                   raised |-> FALSE],
                  SubSeq(node.ch, 1, i - 1), 1, <<"Body Direct">>, ImageBase)

\* the text buffer is not empty and its last character is whitespace
ends_in_whitespace(frags) ==
    /\ concat(frags) # <<>>
    /\ concat(frags)[Len(concat(frags))] \in Whitespace

\* C20: a line break never flushes, and on a buffer that holds text it
\* appends one space exactly when the buffer does not end in whitespace.
C20_SpaceUnlessWhitespace ==
    \A i \in br_children(walk_tag) :
        LET st == locals_before(walk_tag, i)
        IN  /\ walk_br(st).items = st.items
            /\ concat(st.frags) # <<>> =>
                   walk_br(st).frags = (IF ends_in_whitespace(st.frags)
                                        THEN st.frags
                                        ELSE Append(st.frags, <<" ">>))

\* a walk over " a " and a line break: the buffer ended in a space and the
\* line break appended another; the walk gave the one paragraph "a"
C20_Witness ==
    /\ pc = "returned"
    /\ Len(walk_tag.ch) = 2
    /\ walk_tag.ch[1] = Text(<<" ", "a", " ">>)
    /\ 2 \in br_children(walk_tag)
    /\ locals_before(walk_tag, 2).frags = <<<<" ", "a", " ">>>>
    /\ walk_br(locals_before(walk_tag, 2)).frags = <<<<" ", "a", " ">>, <<" ">>>>
    /\ structured_content = <<ParagraphA>>

-----------------------------------------------------------------------------
(* Properties of the pipeline, under Spec *)

\* the manifest items of the spine entries, 0 where there is none; the
\* properties below take this sequence as at
spine_items ==
    <<>> \o [p \in 1..Len(book.spine) |-> spine_item(BookItems, book.spine[p])]

\* the spine entry at p resolves to a document that no earlier entry
\* resolved to
first_document(at, p) ==
    /\ at[p] # 0
    /\ BookItems[at[p]].type = "document"
    /\ \A q \in 1..(p - 1) : at[q] # at[p]

\* the positions of the items added while the spine entry at p was handled
added_at(p) == {k \in 1..Len(structured_content) : origin[k] = p}

chapter_starts ==
    {k \in 1..Len(structured_content) :
        structured_content[k].type = "chapter_start"}

\* the spine entries handled so far
handled == 1..(spine_pos - 1)

\* the content is in the order of the spine, and a chapter_start is the
\* first item of its document
in_spine_order ==
    \A k \in 1..Len(structured_content) :
        /\ k > 1 => origin[k - 1] <= origin[k]
        /\ (k > 1 /\ k \in chapter_starts) => origin[k - 1] < origin[k]

\* a step of the pipeline only appends to the content
appends_only ==
    /\ Len(structured_content') >= Len(structured_content)
    /\ SubSeq(structured_content', 1, Len(structured_content)) = structured_content

\* C3: the structured content is in spine order: the items of an earlier
\* spine document precede those of a later one, and the chapter_start of a
\* chapter precedes every item of its document and the chapter_start of the
\* next chapter; the content only ever grows at its end.
C3_SpineOrder == [](in_spine_order) /\ [][appends_only]_vars

\* two chapters, each with its chapter_start and items after it
C3_Witness ==
    /\ pc = "done"
    /\ \E j, k \in chapter_starts :
           /\ origin[j] < origin[k]
           /\ j + 1 < k
           /\ k < Len(structured_content)

\* the items the document of the spine entry at p gave, its chapter_start
\* left out
document_items(p) ==
    SelectSeq([k \in 1..Len(structured_content) |->
                  IF origin[k] = p THEN structured_content[k]
                  ELSE [type |-> "chapter_start"]],
              LAMBDA item : item.type # "chapter_start")

\* the spine entry at p is the document with the identifier id, walked
walked_document(at, p, id) ==
    /\ p \in walked
    /\ at[p] # 0
    /\ BookItems[at[p]].id = id

TitleText == <<"T", "i", "t", "l", "e">>
HelloWorldText == <<"H", "e", "l", "l", "o", " ", "w", "o", "r", "l", "d">>

\* C4: the document whose body is <h1>Title</h1><p>Hello <b>world</b></p>
\* <img src="a.png">, a.png passing the size filter, yields exactly three
\* items in this order: the paragraph "Title" with role h1, the paragraph
\* "Hello world" with no role, and an image item named after the hash of
\* a.png.
C4_ThreeItems ==
    \A p \in 1..Len(book.spine) :
        walked_document(spine_items, p, <<"c1">>) =>
            /\ Len(document_items(p)) = 3
            /\ document_items(p)[1] =
                   [type |-> "paragraph", text |-> TitleText, role |-> "h1"]
            /\ document_items(p)[2] =
                   [type |-> "paragraph", text |-> HelloWorldText]
            /\ document_items(p)[3].type = "image"
            /\ document_items(p)[3].filename[1] = compute_hash("big")

\* what the document yields instead: the two paragraphs, the first without
\* a role, and no image
C4_Witness ==
    \E p \in 1..Len(book.spine) :
        /\ walked_document(spine_items, p, <<"c1">>)
        /\ document_items(p) =
               <<[type |-> "paragraph", text |-> TitleText],
                 [type |-> "paragraph", text |-> HelloWorldText]>>

\* the book opens, and its navigation gives no entry that resolves to a
\* document: there is none, or its anchors are fragments of the navigation
\* document
no_navigation_entries ==
    /\ book.exists
    /\ book.readable
    /\ book.nav = <<>> \/ book.nav = <<NavFragments>>

\* the documents of the model with text, and the one of them with an image
TextDocuments == {<<"c1">>, <<"c2">>, <<"c4">>}
ImageDocuments == {<<"c2">>}

\* the items of the document at p hold a paragraph, and an image if the
\* document shows one
content_extracted(at, p) ==
    /\ BookItems[at[p]].id \in TextDocuments =>
           \E n \in 1..Len(document_items(p)) :
               document_items(p)[n].type = "paragraph"
    /\ BookItems[at[p]].id \in ImageDocuments =>
           \E n \in 1..Len(document_items(p)) :
               document_items(p)[n].type = "image"

\* C5: for a book with no resolvable navigation entries, extract_chapters
\* leaves the chapter list empty, process() succeeds, and the structured
\* content holds the paragraphs and images of the spine documents and no
\* chapter_start.
C5_NoNavigation ==
    (no_navigation_entries /\ pc \notin {"start", "extract_chapters"}) =>
        /\ chapters = <<>>
        /\ chapter_starts = {}
        /\ result # "False"
        /\ pc = "done" =>
               LET at == spine_items
               IN  /\ result = "True"
                   /\ \A p \in 1..Len(book.spine) :
                          first_document(at, p) => content_extracted(at, p)
                   /\ (\E p \in 1..Len(book.spine) :
                           /\ first_document(at, p)
                           /\ BookItems[at[p]].id \in TextDocuments)
                          => structured_content # <<>>

\* a finished run on a book whose navigation has only fragment anchors,
\* with paragraphs and an image in the content
C5_Witness ==
    /\ book.nav = <<NavFragments>>
    /\ pc = "done"
    /\ result = "True"
    /\ \E j, k \in 1..Len(structured_content) :
           /\ structured_content[j].type = "paragraph"
           /\ structured_content[k].type = "image"

\* the anchors of an XHTML navigation document, and the directory it is in
nav_anchors ==
    IF book.nav = <<>> THEN <<>>
    ELSE IF book.nav[1].type = "navigation" THEN <<>>
    ELSE IF ~book.nav[1].nav \/ ~book.nav[1].readable THEN <<>>
    ELSE find_all(book.nav[1].content, "a")

nav_directory == SubSeq(book.nav[1].name, 1, Len(book.nav[1].name) - 1)

anchor_title(a) == strip(get_text(a))

\* t is the name d followed by a fragment
is_fragment_of(t, d) ==
    /\ Len(t) = Len(d) + 2
    /\ SubSeq(t, 1, Len(d)) = d
    /\ t[Len(d) + 1] = "#"

\* the href of the anchor is, letter for letter, the name of d and a fragment
names_literally(a, d) == is_fragment_of(a.attrs.href, d.name)

\* the href of the anchor, taken from the directory of the navigation
\* document, is the name of d and a fragment
points_at(a, d) == is_fragment_of(nav_directory \o a.attrs.href, d.name)

\* the anchors among as whose href names d letter for letter, and those
\* whose href points at d from the directory of the navigation document
naming(as, d) == {i \in 1..Len(as) : names_literally(as[i], d)}
pointing(as, d) == {i \in 1..Len(as) : points_at(as[i], d)}

\* the last of a non-empty set of positions
last_of(S) == CHOOSE i \in S : \A j \in S : j <= i

\* the chapter_start a document gets when the navigation gives it the title
chapter_start_of(d, title) ==
    [type |-> "chapter_start", title |-> title,
     href |-> normalize_item_href(d.name)]

\* the walk of the document at m, at any spine position, added this item
emitted_for(at, m, item) ==
    \A p \in walked :
        at[p] = m => \E k \in added_at(p) : structured_content[k] = item

\* the chapter list has an entry for d with the title of the anchor a
chapter_listed(d, a) ==
    \E c \in 1..Len(chapters) :
        chapters[c] = <<normalize_item_href(d.name), anchor_title(a)>>

Documents == {m \in 1..Len(Manifest) : Manifest[m].type = "document"}

\* C7 as stated: a navigation entry whose href is D#frag normalizes to the
\* normalized name of the spine document D, and processing D emits a
\* chapter_start carrying the title of that entry.
C7_LiteralHrefMatches ==
    pc \notin {"start", "extract_chapters"} =>
        LET as == nav_anchors
            at == spine_items
        IN  \A m \in Documents : \A i \in naming(as, Manifest[m]) :
                /\ chapter_listed(Manifest[m], as[i])
                /\ emitted_for(at, m, chapter_start_of(Manifest[m],
                                                       anchor_title(as[i])))

\* C7: a navigation entry whose href, taken from the directory of the
\* navigation document, is D#frag normalizes to the normalized name of the
\* spine document D, and processing D emits a chapter_start carrying the
\* title of the last such entry.
C7_ResolvedHrefMatches ==
    pc \notin {"start", "extract_chapters"} =>
        LET as == nav_anchors
            at == spine_items
        IN  \A m \in Documents :
                LET is == pointing(as, Manifest[m])
                IN  is # {} =>
                        /\ \A i \in is : chapter_listed(Manifest[m], as[i])
                        /\ emitted_for(at, m, chapter_start_of(Manifest[m],
                               anchor_title(as[last_of(is)])))

\* the navigation document is in Text/, its anchor chapter2.xhtml#s1 gave
\* the document Text/chapter2.xhtml its chapter_start
C7_Witness ==
    /\ book.nav = <<NavSub>>
    /\ \E p \in walked : \E k \in added_at(p) :
           /\ BookItems[spine_items[p]].id = <<"c2">>
           /\ structured_content[k] =
                  [type |-> "chapter_start", title |-> <<"T", "w", "o">>,
                   href |-> <<"Text", "/", "chapter2.xhtml">>]

\* C8: a document that is in the spine more than once is walked once and
\* gets at most one chapter_start; a spine entry that is no document, or
\* that was seen before, adds nothing; no two chapter_start items are for
\* the same href.
C8_WalkedOnce ==
    /\ LET at == spine_items
       IN  /\ \A p, q \in walked : at[p] = at[q] => p = q
           /\ \A p \in handled : ~first_document(at, p) => added_at(p) = {}
    /\ \A p \in handled : Cardinality(added_at(p) \cap chapter_starts) <= 1
    /\ \A j, k \in chapter_starts :
           structured_content[j].href = structured_content[k].href => j = k

\* a finished run over a spine with the same chapter twice and a style sheet
C8_Witness ==
    /\ pc = "done"
    /\ \E p, q, r \in 1..Len(book.spine) :
           /\ p < q
           /\ spine_items[p] = spine_items[q]
           /\ p \in walked
           /\ added_at(p) \cap chapter_starts # {}
           /\ spine_items[r] # 0
           /\ BookItems[spine_items[r]].type = "other"

\* the book can be opened
opens == book.exists /\ book.readable

\* the spine entry at p names no manifest item, or one that cannot be read
failed_at(at, p) == at[p] = 0 \/ ~BookItems[at[p]].readable

\* C9: a failure while one spine document is handled skips that document
\* only: the run goes on to the end of the spine and succeeds, and every
\* document, before or after the failure, is walked and its items are in
\* the content.
C9_FailureSkipsOneDocument ==
    /\ opens => result # "False"
    /\ (opens /\ pc \in {"save_results_xml", "done"}) =>
           spine_pos = Len(book.spine) + 1
    /\ LET at == spine_items
       IN  \A p \in handled :
               first_document(at, p) => (p \in walked /\ content_extracted(at, p))

\* a finished run in which a document with text follows an entry that failed
C9_Witness ==
    /\ pc = "done"
    /\ result = "True"
    /\ \E p, q \in 1..Len(book.spine) :
           /\ p < q
           /\ failed_at(spine_items, p)
           /\ first_document(spine_items, q)
           /\ BookItems[spine_items[q]].id \in TextDocuments
           /\ added_at(q) # {}

\* C10 as stated: when the book cannot be opened, or its spine is empty,
\* process() reports failure and no document is written.
C10_FailureAndNoDocument ==
    (pc = "done" /\ (~opens \/ book.spine = <<>>)) =>
        (result = "False" /\ ~xml_file.written)

\* C10: when the book cannot be opened, process() stops at once, reports
\* failure and writes no document; when the book opens and its spine is
\* empty, process() reports success and writes a document without chapters.
C10_FailureOnlyWhenUnopened ==
    /\ ~opens => pc \in {"start", "done"}
    /\ (pc = "done" /\ ~opens) =>
           (result = "False" /\ ~xml_file.written /\ structured_content = <<>>)
    /\ (pc = "done" /\ opens /\ book.spine = <<>>) =>
           (result = "True" /\ xml_file.written /\ xml_file.root = <<>>)

\* the run on a file that exists and cannot be read as a book has ended
C10_Witness ==
    /\ pc = "done"
    /\ book.exists
    /\ ~book.readable
    /\ result = "False"

\* the texts of the paragraphs the document of the spine entry at p gave
paragraph_texts(p) ==
    LET items == document_items(p)
    IN  {items[n].text : n \in paragraphs(items)}

TailText == <<"t", "a", "i", "l">>
PostText == <<"p", "o", "s", "t">>

\* C11: no error met while the navigation is resolved, a document is walked
\* or an image is saved leaves process() as an exception: once the book is
\* open the run never fails, it ends with True and a written document; a
\* navigation document that cannot be read leaves the chapter list empty, a
\* document that cannot be read adds nothing, and a document with images
\* that fail adds no image and still gives the paragraphs that follow them.
C11_ErrorsStayInside ==
    /\ result \in {None, "True", "False"}
    /\ pc = "done" => result \in {"True", "False"}
    /\ opens => result # "False"
    /\ (opens /\ pc = "done") => (result = "True" /\ xml_file.written)
    /\ (book.nav = <<NavUnreadable>> /\ pc \notin {"start", "extract_chapters"})
           => chapters = <<>>
    /\ LET at == spine_items
       IN  \A p \in walked :
               /\ ~BookItems[at[p]].readable => document_items(p) = <<>>
               /\ BookItems[at[p]].id = <<"c5">> =>
                      /\ \A n \in 1..Len(document_items(p)) :
                             document_items(p)[n].type = "paragraph"
                      /\ {TailText, PostText} \subseteq paragraph_texts(p)

\* a finished run on a book whose navigation document cannot be read, with
\* a document that cannot be read, then the document whose images fail,
\* then a document with text
C11_Witness ==
    /\ pc = "done"
    /\ result = "True"
    /\ book.nav = <<NavUnreadable>>
    /\ \E p, q, r \in walked :
           /\ p < q
           /\ q < r
           /\ ~BookItems[spine_items[p]].readable
           /\ BookItems[spine_items[q]].id = <<"c5">>
           /\ PostText \in paragraph_texts(q)
           /\ added_at(r) # {}

\* the conventional names of a navigation document, in the order the
\* variant of extract_chapters in s1_v6_final.py probes them
nav_hrefs_to_try ==
    <<<<"nav.xhtml">>, <<"navigation-documents.xhtml">>, <<"toc.ncx">>,
      <<"OEBPS", "/", "nav.xhtml">>,
      <<"OEBPS", "/", "navigation-documents.xhtml">>,
      <<"OEBPS", "/", "toc.ncx">>,
      <<"OPS", "/", "nav.xhtml">>,
      <<"OPS", "/", "navigation-documents.xhtml">>,
      <<"OPS", "/", "toc.ncx">>>>

\* the item the probe of the conventional names finds, 0 when none is there
RECURSIVE probed(_, _)
probed(items, hrefs) ==
    IF hrefs = <<>> THEN 0
    ELSE IF get_item_with_href(items, Head(hrefs)) # 0
         THEN get_item_with_href(items, Head(hrefs))
    ELSE probed(items, Tail(hrefs))

\* the navigation source in the order of the claim: the item with the nav
\* property, else the NCX item, else the first conventional name the
\* manifest holds
located(items) ==
    IF nav_item_epub3(items) # 0
    THEN [i |-> nav_item_epub3(items), is_ncx |-> FALSE]
    ELSE IF nav_item_ncx(items) # 0
    THEN [i |-> nav_item_ncx(items), is_ncx |-> TRUE]
    ELSE [i |-> probed(items, nav_hrefs_to_try),
          is_ncx |-> FALSE]

\* C13: extract_chapters takes the navigation source from the first step
\* that finds one: the item with the nav property, else the item of NCX
\* type, else the first conventional file name the manifest holds; the
\* chapter list is that of this source, and empty when no step finds one.
C13_ConventionalNamesProbed ==
    (opens /\ pc \notin {"start", "extract_chapters"}) =>
        chapters = (IF located(BookItems).i = 0 THEN <<>>
                    ELSE nav_chapters(BookItems[located(BookItems).i],
                                      located(BookItems).is_ncx))

\* the manifest holds nav.xhtml without the nav property and no NCX, and
\* the chapter list stayed empty
C13_Witness ==
    /\ pc = "done"
    /\ book.nav = <<NavUnflagged>>
    /\ get_item_with_href(BookItems, <<"nav.xhtml">>) # 0
    /\ nav_chapters(BookItems[get_item_with_href(BookItems, <<"nav.xhtml">>)],
                    FALSE) # <<>>
    /\ chapters = <<>>
    /\ structured_content # <<>>

\* the spine entry at p is a document that was read and parsed and has no
\* body element
without_body(at, p) ==
    /\ at[p] # 0
    /\ BookItems[at[p]].type = "document"
    /\ BookItems[at[p]].readable
    /\ BookItems[at[p]].content.parsed
    /\ ~BookItems[at[p]].content.has_body

CoverText == <<"C", "o", "v", "e", "r">>

\* C14: a spine document without body element is walked from its root
\* node: the paragraphs the root holds are in the content.
C14_RootWalkedWithoutBody ==
    \A p \in walked :
        without_body(spine_items, p) =>
            /\ document_items(p) # <<>>
            /\ BookItems[spine_items[p]].id = <<"cover">> =>
                   paragraph_texts(p) = {CoverText}

\* the document <html><p>Cover</p></html> was handled and gave nothing
C14_Witness ==
    \E p \in walked :
        /\ without_body(spine_items, p)
        /\ BookItems[spine_items[p]].id = <<"cover">>
        /\ get_text(BookItems[spine_items[p]].content.body) = CoverText
        /\ p \in handled
        /\ added_at(p) = {}

\* the heading elements below a node, at any depth
headings(node) ==
    UNION {{find_all(node, n)[k] : k \in 1..Len(find_all(node, n))} :
              n \in HeadingTags}

\* the spine entry at p is a document that was read and parsed and has a body
with_body(at, p) ==
    /\ at[p] # 0
    /\ BookItems[at[p]].type = "document"
    /\ BookItems[at[p]].readable
    /\ BookItems[at[p]].content.parsed
    /\ BookItems[at[p]].content.has_body

\* the paragraph a heading gives: its text, normalized, and its level
heading_paragraph(h) ==
    [type |-> "paragraph", text |-> full_text_of(<<get_text(h)>>),
     role |-> h.name]

\* C15: every heading of a walked document's body, a direct child of body
\* included, gives a paragraph whose role is the level of the heading, and
\* a paragraph has a role only if a heading gave it.
C15_HeadingsCarryRole ==
    \A p \in walked :
        with_body(spine_items, p) =>
            LET body == BookItems[spine_items[p]].content.body
                items == document_items(p)
            IN  /\ \A h \in headings(body) :
                       \E n \in 1..Len(items) : items[n] = heading_paragraph(h)
                /\ \A n \in 1..Len(items) :
                       "role" \in DOMAIN items[n] =>
                           \E h \in headings(body) :
                               items[n] = heading_paragraph(h)

\* two walked documents: the h1 that is a direct child of body gave the
\* paragraph "Title" without role, the h2 inside a div gave the paragraph
\* "Sub" with role h2
C15_Witness ==
    \E p, q \in walked :
        /\ BookItems[spine_items[p]].id = <<"c1">>
        /\ document_items(p)[1] = [type |-> "paragraph", text |-> TitleText]
        /\ BookItems[spine_items[q]].id = <<"c2">>
        /\ document_items(q)[1] =
               [type |-> "paragraph", text |-> <<"S", "u", "b">>, role |-> "h2"]

\* C17: every text node of a walked document's body that is not only
\* whitespace, a direct child of body next to elements included, is in
\* exactly one paragraph, and the paragraphs are in the order of the text:
\* the letters of the paragraphs, one after the other, are the letters of
\* the body's text.
C17_BodyTextKept ==
    \A p \in walked :
        with_body(spine_items, p) =>
            letters(paragraph_text(document_items(p)))
                = letters(get_text(BookItems[spine_items[p]].content.body))

\* the document "Intro <div>...</div> tail" was walked: the paragraphs of
\* the div are there, the two texts next to it are not
C17_Witness ==
    \E p \in walked :
        /\ BookItems[spine_items[p]].id = <<"c2">>
        /\ BookItems[spine_items[p]].content.body.ch[1]
               = Text(<<"I", "n", "t", "r", "o", " ">>)
        /\ paragraph_text(document_items(p))
               = <<"S", "u", "b", "T", "w", "o", "c", "a", "p">>

-----------------------------------------------------------------------------
(* Properties of the source resolver, under SpecResolve *)

\* the manifest holds an item named href
present(href) == get_item_with_href(ResolveItems, href) # 0

\* the content of the item named href, None when it cannot be read
content_of(href) ==
    LET i == get_item_with_href(ResolveItems, href)
    IN  IF ResolveItems[i].readable THEN <<ResolveItems[i].content>> ELSE <<>>

is_data_uri(href) == startswith(href, <<"data:image">>)

\* the reference taken from the directory of the referencing document
relative_to(c) == absolute_href(c.href, c.base_href)

\* the references tried before the common roots
RECURSIVE first_present(_)
first_present(hrefs) ==
    IF hrefs = <<>> THEN <<>>
    ELSE IF present(Head(hrefs)) THEN <<Head(hrefs)>>
    ELSE first_present(Tail(hrefs))

\* the reference under each common root folder, in the order of the roots
under_roots(href) ==
    [n \in 1..(2 * Len(common_roots)) |->
        <<common_roots[(n + 1) \div 2], "/">>
        \o lstrip(IF n % 2 = 1 THEN unquote(href) ELSE href, {"/"})]

\* C12 as stated: a reference that is no data URI and names a manifest
\* item verbatim gets the content of that item, whatever the referencing
\* document's directory holds.
C12_VerbatimBeforeRelative ==
    \A n \in 1..Len(calls) :
        (~is_data_uri(calls[n].href) /\ present(calls[n].href))
            => calls[n].data = content_of(calls[n].href)

\* what extract_image_data returns for the call c when the candidates are
\* tried in the order: relative to the document (decoded, then as written),
\* verbatim, the three with leading dots and slashes stripped, under the
\* common roots
resolved_in_order(c) ==
    LET rel == relative_to(c)
        found == first_present(<<unquote(rel), rel, c.href,
                                 lstrip2(unquote(rel)), lstrip2(rel),
                                 lstrip2(c.href)>>
                               \o under_roots(c.href))
    IN  IF found = <<>> THEN <<>> ELSE content_of(found[1])

\* C12: extract_image_data decodes an inline data URI directly; otherwise
\* it returns the content of the first candidate the manifest holds, the
\* reference relative to the referencing document's directory first, then
\* the reference verbatim, then both with their leading dots and slashes
\* stripped, then the reference under each common root folder; when the
\* relative and the verbatim reference name two items, the relative one is
\* returned; when no candidate is held, None.
C12_RelativeBeforeVerbatim ==
    \A n \in 1..Len(calls) :
        LET c == calls[n]
        IN  /\ is_data_uri(c.href) =>
                   c.data = (IF Len(split(c.href, ",")) < 2 THEN <<>>
                             ELSE b64decode(join(Tail(split(c.href, ",")), <<",">>)))
            /\ ~is_data_uri(c.href) =>
                   /\ c.data = resolved_in_order(c)
                   /\ present(unquote(relative_to(c))) =>
                          c.data = content_of(unquote(relative_to(c)))

\* a.png referenced from Text/chapter2.xhtml, where Text/a.png and a.png are
\* two images: the one in Text/ is returned
C12_Witness ==
    \E n \in 1..Len(calls) :
        /\ calls[n].href = <<"a.png">>
        /\ calls[n].base_href = <<"Text", "/", "chapter2.xhtml">>
        /\ calls[n].data = <<"wide">>
        /\ content_of(calls[n].href) = <<"big">>

-----------------------------------------------------------------------------
(* Properties of inline content, under SpecInline *)

\* the element of the paragraph, and the ruby or inline element inside its
\* em wrappers
middle(node) == SelectSeq(node.ch, LAMBDA e : ~is_str(e))[1]

RECURSIVE core(_)
core(t) == IF t.name = "em" THEN core(t.ch[1]) ELSE t

\* the text of the paragraph before and after its element
text_before(node) == IF is_str(node.ch[1]) THEN node.ch[1].text ELSE <<>>
text_after(node) ==
    IF is_str(node.ch[Len(node.ch)]) THEN node.ch[Len(node.ch)].text ELSE <<>>

\* the base text of a ruby element: the text of its rb, or the text it
\* holds directly when it has no rb; and its gloss: the text of its rt
direct_text(tag) ==
    concat([i \in 1..Len(tag.ch) |->
               IF is_str(tag.ch[i]) THEN tag.ch[i].text ELSE <<>>])
base_of(ruby) ==
    IF find_all(ruby, "rb") # <<>> THEN strip(get_text(find_all(ruby, "rb")[1]))
    ELSE strip(direct_text(ruby))
gloss_of(ruby) ==
    IF find_all(ruby, "rt") # <<>> THEN strip(get_text(find_all(ruby, "rt")[1]))
    ELSE <<>>

one_paragraph(t) == <<[type |-> "paragraph", text |-> t]>>

\* C21: a ruby element with base text B and gloss G contributes the inline
\* text "B(G)" to the text around it, without a paragraph break: the walk
\* of the paragraph gives one paragraph, the text before, B(G) and the
\* text after, for every ruby element that has a base text and a gloss.
C21_RubyRendered ==
    LET ruby == core(middle(walk_tag))
    IN  (/\ pc = "returned"
         /\ ruby.name = "ruby"
         /\ base_of(ruby) # <<>>
         /\ gloss_of(ruby) # <<>>) =>
            structured_content =
                one_paragraph(full_text_of(<<text_before(walk_tag), base_of(ruby),
                                             <<"(">>, gloss_of(ruby), <<")">>,
                                             text_after(walk_tag)>>))

\* the walk of <p>a <ruby><rb>B</rb><rt>G</rt></ruby> b</p> has given the
\* one paragraph "a B(G) b"
C21_Witness ==
    /\ pc = "returned"
    /\ walk_tag = Elem("p", <<Text(<<"a", " ">>),
                              Elem("ruby", <<Rb(<<"B">>), Rt(<<"G">>)>>),
                              Text(<<" ", "b">>)>>)
    /\ structured_content
           = one_paragraph(<<"a", " ", "B", "(", "G", ")", " ", "b">>)

-----------------------------------------------------------------------------
(* Properties of the navigation resolver, under SpecNav *)

nav_doc == book.nav[1]
is_ncx_doc == nav_doc.type = "navigation"

\* the children of a tag that have the name
own(tag, name) == SelectSeq(tag.ch, LAMBDA e : e.name = name)

\* the navPoints of a list with those nested in them, a navPoint before
\* the navPoints nested in it and these before the navPoint that follows
RECURSIVE depth_first(_)
depth_first(points) ==
    IF points = <<>> THEN <<>>
    ELSE <<Head(points)>> \o depth_first(own(Head(points), "navPoint"))
         \o depth_first(Tail(points))

nav_points == depth_first(own(nav_doc.content.ch[1], "navPoint"))

\* the navPoint has a label and a content reference of its own
has_label_and_content(point) ==
    /\ own(point, "navLabel") # <<>>
    /\ own(point, "content") # <<>>
    /\ own(point, "content")[1].attrs.src # <<>>

\* the reference and the label of a navPoint, as a chapter
entry_of(point) ==
    <<normalize_nav_href(nav_doc.name, own(point, "content")[1].attrs.src),
      strip(get_text(own(point, "navLabel")[1]))>>

nav_element == own(own(nav_doc.content, "body")[1], "nav")[1]
container_anchors == own(own(nav_element, "ol")[1], "a")

\* the href is empty or absent; the href is a same-document fragment
no_href(a) == a.attrs.href = <<>>
fragment_only(a) == a.attrs.href # <<>> /\ a.attrs.href[1] = "#"

\* the href of the anchor, resolved against the navigation document and
\* normalized
normalized_href_of(a) == normalize_nav_href(nav_doc.name, a.attrs.href)

\* C23 as stated: an anchor whose href is a same-document fragment or is
\* empty gives no chapter, and every other anchor inside the navigation
\* container gives exactly one, in anchor order.
C23_EveryOtherAnchorListed ==
    LET kept == SelectSeq(container_anchors,
                          LAMBDA a : ~no_href(a) /\ ~fragment_only(a))
    IN  (pc = "process_content" /\ ~is_ncx_doc) =>
            /\ Len(chapters) = Len(kept)
            /\ \A i \in 1..Len(kept) : chapters[i][2] = strip(get_text(kept[i]))

\* C23: an anchor whose href is a same-document fragment, is empty, or is
\* empty once resolved and normalized gives no chapter; every other anchor
\* inside the navigation container gives exactly one chapter, its
\* normalized href with its text, in anchor order; an anchor outside the
\* container gives none.
C23_AnchorsWithPathListed ==
    LET kept == SelectSeq(container_anchors,
                          LAMBDA a : /\ ~no_href(a)
                                     /\ ~fragment_only(a)
                                     /\ normalized_href_of(a) # <<>>)
    IN  (pc = "process_content" /\ ~is_ncx_doc) =>
            chapters = [i \in 1..Len(kept) |->
                           <<normalized_href_of(kept[i]), strip(get_text(kept[i]))>>]

\* the chapters of Text/nav.xhtml with an anchor before its nav element
\* and, inside it, the anchors #top, chapter2.xhtml#s1 and chapter1.xhtml:
\* the two documents, in this order
C23_Witness ==
    /\ pc = "process_content"
    /\ ~is_ncx_doc
    /\ own(own(nav_doc.content, "body")[1], "a") # <<>>
    /\ Len(container_anchors) = 3
    /\ fragment_only(container_anchors[1])
    /\ chapters = << <<<<"Text", "/", "chapter2.xhtml">>, <<"S", "1">>>>,
                     <<<<"Text", "/", "chapter1.xhtml">>, <<"O", "n", "e">>>> >>

\* the text of a node, stripped and with its white space collapsed
collapsed_text(node) == full_text_of(<<get_text(node)>>)

\* what an inline element without image contributes to the text around
\* it: the texts of the paragraphs inside it one after the other, or its
\* own text, stripped
contributed(e) ==
    IF own(e, "p") # <<>>
    THEN concat([i \in 1..Len(own(e, "p")) |-> collapsed_text(own(e, "p")[i])])
    ELSE collapsed_text(e)

\* the items of a walk that gave the text t: one paragraph, none if t is
\* empty
paragraph_of(t) == IF t = <<>> THEN <<>> ELSE one_paragraph(t)

\* C27: the text merged from an inline child arrives stripped and is
\* joined to the text around it without separator: white space that lies
\* only inside the boundary of the inline element is lost, so that two
\* words it alone separates are joined, and the paragraphs returned from
\* inside one inline element are concatenated directly.
C27_InlineTextStrippedAndJoined ==
    LET e == core(middle(walk_tag))
    IN  (/\ pc = "returned"
         /\ e.name = "span"
         /\ find_all(e, "img") = <<>>) =>
            structured_content =
                paragraph_of(full_text_of(<<text_before(walk_tag), contributed(e),
                                            text_after(walk_tag)>>))

\* the walk of <p>a<span> c</span></p> has given the paragraph "ac"
C27_Witness ==
    /\ pc = "returned"
    /\ walk_tag = Elem("p", <<Text(<<"a">>), Elem("span", <<Text(<<" ", "c">>)>>)>>)
    /\ structured_content = one_paragraph(<<"a", "c">>)

-----------------------------------------------------------------------------
(* Properties of the serialized content, under Spec *)

\* the positions of the content before its first chapter_start: all of
\* them when it has none
leading_items(content) ==
    {k \in 1..Len(content) :
        \A j \in 1..k : content[j].type # "chapter_start"}

\* the paragraph and image elements of the XML document, chapter after
\* chapter
xml_children(root) == concat([c \in 1..Len(root) |-> root[c].children])

\* the item is an element of the XML document
serialized(item, root) ==
    \E n \in 1..Len(xml_children(root)) :
        LET child == xml_children(root)[n]
        IN  \/ /\ item.type = "paragraph"
               /\ child.tag = "paragraph"
               /\ child.text = item.text
            \/ /\ item.type = "image"
               /\ child.tag = "image"
               /\ child.src = item.filepath

\* C24: the paragraph and image items that precede the first
\* chapter_start, or all of them in a book without chapters, are kept as
\* leading content: they are in the structured content and in the XML
\* document save_results_xml writes from it.
C24_LeadingContentSerialized ==
    xml_file.written =>
        \A k \in leading_items(structured_content) :
            serialized(structured_content[k], xml_file.root)

\* a run over a book without navigation whose first document gave a
\* paragraph and an image: both are in the structured content, and the XML
\* document is written
C24_Witness ==
    /\ xml_file.written
    /\ book.nav = <<>>
    /\ \E k \in leading_items(structured_content) :
           structured_content[k].type = "paragraph"
    /\ \E k \in leading_items(structured_content) :
           structured_content[k].type = "image"

-----------------------------------------------------------------------------
(* Properties of the image log, under SpecImage *)

\* the hashes of the entries of the image log
logged_hashes == {image_log[k].hash : k \in 1..Len(image_log)}

\* no two entries of the image log have the same hash, and the processed
\* hashes are those of the log
duplicate_free ==
    /\ \A j, k \in 1..Len(image_log) :
           image_log[j].hash = image_log[k].hash => j = k
    /\ processed_images = logged_hashes

\* a step leaves the entries of the image log as they are and in place
log_appends_only ==
    /\ Len(image_log') >= Len(image_log)
    /\ SubSeq(image_log', 1, Len(image_log)) = image_log

\* C25: in every state of a run the image store is duplicate-free and
\* append-only: the image log holds at most one entry per content hash, the
\* set of processed hashes is the set of hashes in the log, and no call of
\* save removes or rewrites an entry of the log.
C25_StoreAppendOnly == [](duplicate_free) /\ [][log_appends_only]_vars

\* three calls of save left two entries in the log: two of the calls had
\* the same bytes and both gave an item
C25_Witness ==
    /\ Len(calls) = 3
    /\ Len(image_log) = 2
    /\ \A i \in 1..3 : calls[i].info # NoImage
    /\ calls[1].data = calls[3].data
    /\ calls[1].data # calls[2].data

-----------------------------------------------------------------------------
(* Properties of the chapter titles, under Spec *)

\* the navigation entries whose normalized href is h
entries_for(h) == {c \in 1..Len(chapters) : chapters[c][1] = h}

\* C26: when several navigation entries normalize to the same href, the
\* document gets a single chapter_start, and it carries the title of the
\* last of these entries in navigation order: every chapter_start has the
\* title of the last entry for its href, and no two have the same href.
C26_LastTitleWins ==
    \A k \in chapter_starts :
        LET h == structured_content[k].href
        IN  /\ entries_for(h) # {}
            /\ structured_content[k].title = chapters[last_of(entries_for(h))][2]
            /\ \A j \in chapter_starts : structured_content[j].href = h => j = k

\* the navigation names chapter4.xhtml twice, as 4A and then as 4B, and the
\* document got its chapter_start with the title 4B
C26_Witness ==
    /\ pc = "done"
    /\ \E a, b \in entries_for(<<"chapter4.xhtml">>) :
           /\ a < b
           /\ chapters[a][2] = <<"4", "A">>
           /\ chapters[b][2] = <<"4", "B">>
    /\ \E k \in chapter_starts :
           structured_content[k] = [type |-> "chapter_start",
                                    title |-> <<"4", "B">>,
                                    href |-> <<"chapter4.xhtml">>]

-----------------------------------------------------------------------------
(* Properties of a failed chapter, under Spec *)

\* the document of the spine entry at p, and its normalized href
document_at(at, p) == BookItems[at[p]]
href_at(at, p) == normalize_item_href(document_at(at, p).name)

\* the navigation names the document of the spine entry at p
named_at(at, p) == entries_for(href_at(at, p)) # {}

\* the walk of the document fails: its content cannot be read, or it
\* holds the image whose declared width cannot be converted
unreadable_at(at, p) == ~document_at(at, p).readable
fails_inside_at(at, p) == document_at(at, p).id = <<"c5">>

\* the first item added for the spine entry at p
first_added(p) == CHOOSE k \in added_at(p) : \A j \in added_at(p) : k <= j

\* C28: when the walk of a spine document the navigation names fails, the
\* chapter_start appended before the walk stays in the content, followed
\* by the items emitted before the failure (none when the content cannot
\* be read), and the normalized href of the document is recorded as
\* visited: a later spine entry for the document is skipped, not retried.
C28_FailedChapterKeepsStart ==
    LET at == spine_items
    IN  \A p \in handled :
            (/\ first_document(at, p)
             /\ named_at(at, p)
             /\ unreadable_at(at, p) \/ fails_inside_at(at, p)) =>
                /\ p \in walked
                /\ added_at(p) # {}
                /\ structured_content[first_added(p)].type = "chapter_start"
                /\ structured_content[first_added(p)].href = href_at(at, p)
                /\ unreadable_at(at, p) => added_at(p) = {first_added(p)}
                /\ fails_inside_at(at, p) =>
                       /\ first_added(p) + 1 \in added_at(p)
                       /\ structured_content[first_added(p) + 1]
                              = [type |-> "paragraph", text |-> <<"x">>]
                /\ href_at(at, p) \in processed_hrefs
                /\ \A q \in handled :
                       (q > p /\ at[q] = at[p]) =>
                           (q \notin walked /\ added_at(q) = {})

\* a finished run over a spine with chapter3.xhtml twice and then
\* Text/chapter5.xhtml, both named by the navigation: chapter3.xhtml, which
\* cannot be read, left its chapter_start and nothing else, its second
\* entry was skipped, and Text/chapter5.xhtml left its chapter_start and
\* the paragraph before the image that fails
C28_Witness ==
    /\ pc = "done"
    /\ Len(book.spine) = 3
    /\ walked = {1, 3}
    /\ unreadable_at(spine_items, 1)
    /\ spine_items[2] = spine_items[1]
    /\ fails_inside_at(spine_items, 3)
    /\ structured_content[1] = [type |-> "chapter_start",
                                title |-> <<"T", "h", "r", "e", "e">>,
                                href |-> <<"chapter3.xhtml">>]
    /\ structured_content[2].type = "chapter_start"
    /\ structured_content[3] = [type |-> "paragraph", text |-> <<"x">>]
    /\ <<"chapter3.xhtml">> \in processed_hrefs

-----------------------------------------------------------------------------
(* Properties of the ids of the XML document, under SpecXml *)

\* the elements of the XML document with the tag, in output order
elements_of(root, tag) == SelectSeq(xml_children(root), LAMBDA e : e.tag = tag)

\* the position of the c-th chapter_start of the content
nth_start(c) ==
    CHOOSE k \in chapter_starts :
        Cardinality({j \in chapter_starts : j <= k}) = c

\* the items of the content between its c-th chapter_start and the next
segment(c) ==
    SubSeq(structured_content, nth_start(c) + 1,
           IF c < Cardinality(chapter_starts) THEN nth_start(c + 1) - 1
           ELSE Len(structured_content))

\* the element is the serialization of the item
element_of(e, item) ==
    /\ e.tag = item.type
    /\ item.type = "paragraph" => e.text = item.text
    /\ item.type = "image" => e.src = item.filepath

\* C29: in the XML document the chapters have the ids ch1..chK, the
\* paragraphs p1..pN and the images img1..imgM, each numbered in output
\* order across the whole file, not per chapter, so that no id occurs
\* twice; every paragraph or image element is a child of the chapter
\* element made for the last chapter_start before its item.
C29_IdsConsecutive ==
    xml_file.written =>
        LET root == xml_file.root
            ps == elements_of(root, "paragraph")
            is == elements_of(root, "image")
            all == xml_children(root)
        IN  /\ Len(root) = Cardinality(chapter_starts)
            /\ \A c \in 1..Len(root) : root[c].id = <<"ch", c>>
            /\ \A n \in 1..Len(ps) : ps[n].id = <<"p", n>>
            /\ \A n \in 1..Len(is) : is[n].id = <<"img", n>>
            /\ \A m, n \in 1..Len(all) : all[m].id = all[n].id => m = n
            /\ \A c \in 1..Len(root) :
                   /\ root[c].title = structured_content[nth_start(c)].title
                   /\ Len(root[c].children) = Len(segment(c))
                   /\ \A n \in 1..Len(segment(c)) :
                          element_of(root[c].children[n], segment(c)[n])

\* an XML document with two chapters, the first with an element and the
\* second with one element of the same kind, whose id has the number 2
C29_Witness ==
    /\ xml_file.written
    /\ Len(xml_file.root) = 2
    /\ Len(xml_file.root[1].children) >= 1
    /\ Len(xml_file.root[2].children) = 1
    /\ xml_file.root[2].children[1].id \in {<<"p", 2>>, <<"img", 2>>}

-----------------------------------------------------------------------------
(* Properties of the translation loop, under SpecTranslate *)

in_loop == pc \in {"while", "process_batch", "finished"}

\* the ids of a queue
ids_of(elements) == {elements[n] : n \in 1..Len(elements)}

\* every element that leaves the queue in a step is in the cache after it
leaves_only_cached ==
    in_loop =>
        \A id \in ids_of(elements_to_process) :
            id \notin ids_of(elements_to_process') => id \in translation_cache'

\* process_batch returns after its last attempt failed
batch_fails == pc = "process_batch" /\ pc' = "while" /\ outcome' = "failed"

\* the batch that failed stays in the queue, at its head
failed_batch_kept ==
    batch_fails =>
        /\ attempt = MAX_RETRIES - 1
        /\ elements_to_process' = elements_to_process
        /\ first_batch(elements_to_process') = batch

\* the iteration after a failure sends the same batch
failed_batch_sent_again ==
    (pc = "while" /\ outcome = "failed" /\ pc' = "process_batch") =>
        batch' = batch /\ attempt' = 0

\* after a failure the loop goes on, whatever the number of failures before
loop_goes_on ==
    (pc = "while" /\ outcome = "failed" /\ ~stop_flag) => ENABLED SendBatch

\* the queue holds the elements that are not in the cache, in their order
queue_is_uncached ==
    in_loop =>
        elements_to_process = SelectSeq(elements_to_translate,
                                  LAMBDA id : id \notin translation_cache)

\* the loop is left with an empty queue or with the stop flag set
ends_when_done == pc = "finished" => (elements_to_process = <<>> \/ stop_flag)

\* C30: an element leaves the pending queue of translate_elements only once
\* its id is in the translation cache; a batch for which process_batch fails
\* after MAX_RETRIES attempts stays in the queue and is sent again on the
\* next iteration, however often it failed before; the loop ends only with
\* an empty queue or with the stop flag set.
C30_FailedBatchStaysQueued ==
    /\ [](queue_is_uncached /\ ends_when_done /\ loop_goes_on)
    /\ [][leaves_only_cached /\ failed_batch_kept /\ failed_batch_sent_again]_vars

\* a full batch failed MAX_RETRIES times, was sent again, and is at its last
\* attempt again, while other elements were translated before
C30_Witness ==
    /\ pc = "process_batch"
    /\ outcome = "failed"
    /\ attempt = MAX_RETRIES - 1
    /\ Len(batch) = BATCH_SIZE
    /\ ~stop_flag
    /\ translation_cache # {}
    /\ Len(elements_to_process) > BATCH_SIZE - 1

====
